---- MODULE Spec2Model ----
(***************************************************************************)
(* Model of the comsect1 architecture conformance engine:                  *)
(*   scripts/Verify-Comsect1Code.py  (include binding, C/C++)              *)
(*   scripts/Verify-OOPCode.py       (identifier binding, VB.NET / C#)     *)
(* Text is modelled character by character: a string is a sequence of      *)
(* one-character strings, a path is a sequence of such segments.           *)
(***************************************************************************)
EXTENDS Integers, Sequences, FiniteSets, TLC

VARIABLES
    binding,                        \* which program runs: "role", "include", "identifier"
    pc,                             \* position of the run
    file_name,                      \* input of the role classifier
    role_info,                      \* its result
    dirs,                           \* directories created below the root besides those of files
    tree,                           \* every file below the root, in directory-walk order
    source_files,                   \* the files the run collected
    idx,                            \* index of the next file of the per-file loop
    findings,                       \* the finding list
    project_config_names,           \* names of the headers directly in project/config
    header_feature_owners,          \* header leaf name -> set of owning features
    project_resource_header_names,  \* names of the registered resource headers
    class_map,                      \* identifier binding: role -> (class name, file) list
    all_layer_files,                \* identifier binding: the files that carry a layer prefix
    console,                        \* the finding lines printed, in the order of printing
    report,                         \* the finding array of the structured report
    banner,                         \* the headline the run prints, <<>> before it does
    args,                           \* command line and environment of the run
    out,                            \* working directory of a verifier, where it writes its report
    gate,                           \* gate driver: the local variables of main, <<>> otherwise
    stages,                         \* gate driver: the stage entries of the report
    gatePassed,                     \* gate driver: report["gatePassed"]
    exit_code                       \* process exit status, -1 while running

vars == <<binding, pc, file_name, role_info, dirs, tree, source_files, idx, findings,
          project_config_names, header_feature_owners,
          project_resource_header_names, class_map, all_layer_files,
          console, report, banner, args, out, gate, stages, gatePassed, exit_code>>

\* the command line of a verifier names a root that is a directory, and report.json
\* of the working directory for the report
RootGiven == [root_is_dir |-> TRUE, json_out |-> << <<"r","e","p","o","r","t",".","j","s","o","n">> >>]

\* no gate driver and no scaffold run, in an empty working directory
NoGate ==
    /\ args = RootGiven /\ out = [files |-> <<>>, dirs |-> {}]
    /\ gate = <<>> /\ stages = <<>> /\ gatePassed = TRUE

----------------------------------------------------------------------------
(* Bounds of the model *)

\* number of "_<part>" groups appended to a head when building classifier inputs
MaxRestParts == 2

\* depth of the unit directory of a vendored architecture unit below deps/extern
\* or deps/middleware
MaxNest == 1

\* number of blank lines that may precede the include directive of a file
MaxLead == 1

----------------------------------------------------------------------------
(* Text helpers *)

None == <<>>        \* Python None; every use of a feature tests truthiness only

RECURSIVE Join(_)
Join(ss) == IF ss = <<>> THEN <<>> ELSE Head(ss) \o Join(Tail(ss))

\* str.split(sep) for a separator of one character: the pieces of value between
\* its occurrences
RECURSIVE Split(_, _)
Split(value, sep) ==
    IF \A k \in 1..Len(value) : value[k] # sep
    THEN <<value>>
    ELSE LET i == CHOOSE k \in 1..Len(value) :
                     value[k] = sep /\ \A j \in 1..(k - 1) : value[j] # sep
         IN  <<SubSeq(value, 1, i - 1)>> \o Split(SubSeq(value, i + 1, Len(value)), sep)

\* str.split(",")
SplitComma(value) == Split(value, ",")

StartsWith(s, p) == Len(s) >= Len(p) /\ SubSeq(s, 1, Len(p)) = p

EndsWith(s, p) == Len(s) >= Len(p) /\ SubSeq(s, Len(s) - Len(p) + 1, Len(s)) = p

Contains(s, p) == \E i \in 1..(Len(s) - Len(p) + 1) : SubSeq(s, i, i + Len(p) - 1) = p

UpperLetters == <<"A","B","C","D","E","F","G","H","I","J","K","L","M","N","O","P","Q","R",
                  "S","T","U","V","W","X","Y","Z">>
LowerLetters == <<"a","b","c","d","e","f","g","h","i","j","k","l","m","n","o","p","q","r",
                  "s","t","u","v","w","x","y","z">>
Digits == <<"0","1","2","3","4","5","6","7","8","9">>

UpperSet == {UpperLetters[i] : i \in 1..26}
LowerOf == [c \in UpperSet |-> LowerLetters[CHOOSE i \in 1..26 : UpperLetters[i] = c]]

\* str.lower() of one character
LowerCh(c) == IF c \in UpperSet THEN LowerOf[c] ELSE c

Lower(s) == [i \in 1..Len(s) |-> LowerCh(s[i])]

\* str(n) of a natural number
RECURSIVE NatStr(_)
NatStr(n) == IF n < 10 THEN <<Digits[n + 1]>> ELSE NatStr(n \div 10) \o <<Digits[(n % 10) + 1]>>

\* position of the last "." of a name, 0 when there is none (str.rfind + 1)
RECURSIVE RFindDot(_, _)
RFindDot(s, i) == IF i = 0 THEN 0 ELSE IF s[i] = "." THEN i ELSE RFindDot(s, i - 1)

\* pathlib.PurePath.suffix (Python 3.11): "" unless 0 < rfind < len - 1
PathSuffix(name) ==
    LET i == RFindDot(name, Len(name))
    IN  IF i > 1 /\ i < Len(name) THEN SubSeq(name, i, Len(name)) ELSE <<>>

\* pathlib.PurePath.stem
PathStem(name) ==
    LET i == RFindDot(name, Len(name))
    IN  IF i > 1 /\ i < Len(name) THEN SubSeq(name, 1, i - 1) ELSE name

----------------------------------------------------------------------------
(* Words *)

w_inf == <<"i","n","f">>
w_ida == <<"i","d","a">>
w_prx == <<"p","r","x">>
w_poi == <<"p","o","i">>
w_cfg == <<"c","f","g">>
w_db  == <<"d","b">>
w_svc == <<"s","v","c">>
w_mdw == <<"m","d","w">>
w_hal == <<"h","a","l">>
w_bsp == <<"b","s","p">>
w_stm == <<"s","t","m">>
w_core == <<"c","o","r","e">>
w_foo == <<"f","o","o">>
w_bar == <<"b","a","r">>
w_project == <<"p","r","o","j","e","c","t">>
U == <<"_">>
ext_c == <<".","c">>
ext_h == <<".","h">>

----------------------------------------------------------------------------
(* Role classifier: Verify-Comsect1Code.py get_role_info *)

RoleInfo(r, f) == [role |-> r, feature |-> f]

core_map(stem) ==
    CASE stem = w_ida \o U \o w_core -> "core_idea"
      [] stem = w_poi \o U \o w_core -> "core_poiesis"
      [] stem = w_prx \o U \o w_core -> "core_praxis"
      [] OTHER -> "none"

role_map(p) ==
    CASE p = w_ida -> "idea"
      [] p = w_prx -> "praxis"
      [] p = w_poi -> "poiesis"
      [] p = w_cfg -> "feature_cfg"
      [] p = w_db  -> "feature_db"

FeatureTags == {w_ida, w_prx, w_poi, w_cfg, w_db}

\* mutant: the reserved prefix is rejected only when a name follows it
get_role_info_inf_needs_suffix(file_name_) ==
    LET stem == PathStem(file_name_)
        tags == {p \in FeatureTags : StartsWith(stem, p \o U) /\ Len(stem) > Len(p) + 1}
    IN  IF StartsWith(stem, w_inf \o U) /\ Len(stem) > 4 THEN RoleInfo("invalid_prefix", None)
        ELSE IF core_map(stem) # "none" THEN RoleInfo(core_map(stem), w_core)
        ELSE IF tags # {} THEN
            LET p == CHOOSE t \in tags : TRUE
            IN  RoleInfo(role_map(p), SubSeq(stem, Len(p) + 2, Len(stem)))
        ELSE IF StartsWith(stem, w_svc \o U) THEN RoleInfo("service", None)
        ELSE IF StartsWith(stem, w_mdw \o U) THEN RoleInfo("middleware", None)
        ELSE IF StartsWith(stem, w_hal \o U) THEN RoleInfo("hal", None)
        ELSE IF StartsWith(stem, w_bsp \o U) THEN RoleInfo("bsp", None)
        ELSE IF StartsWith(stem, w_stm \o U) THEN RoleInfo("datastream", None)
        ELSE RoleInfo("unknown", None)

\* mutant: the generic <tag>_<rest> pattern is tried before the exact Core names
get_role_info_core_after_generic(file_name_) ==
    LET stem == PathStem(file_name_)
        tags == {p \in FeatureTags : StartsWith(stem, p \o U) /\ Len(stem) > Len(p) + 1}
    IN  IF StartsWith(stem, w_inf \o U) THEN RoleInfo("invalid_prefix", None)
        ELSE IF tags # {} THEN
            LET p == CHOOSE t \in tags : TRUE
            IN  RoleInfo(role_map(p), SubSeq(stem, Len(p) + 2, Len(stem)))
        ELSE IF core_map(stem) # "none" THEN RoleInfo(core_map(stem), w_core)
        ELSE IF StartsWith(stem, w_svc \o U) THEN RoleInfo("service", None)
        ELSE IF StartsWith(stem, w_mdw \o U) THEN RoleInfo("middleware", None)
        ELSE IF StartsWith(stem, w_hal \o U) THEN RoleInfo("hal", None)
        ELSE IF StartsWith(stem, w_bsp \o U) THEN RoleInfo("bsp", None)
        ELSE IF StartsWith(stem, w_stm \o U) THEN RoleInfo("datastream", None)
        ELSE RoleInfo("unknown", None)

\* get_role_info(file_name) -> (role, feature).  The names of the model hold no
\* line terminator, so "(?P<f>.+)$" is "a non-empty rest".
get_role_info(file_name_) ==
    LET stem == PathStem(file_name_)
        tags == {p \in FeatureTags : StartsWith(stem, p \o U) /\ Len(stem) > Len(p) + 1}
    IN  IF StartsWith(stem, w_inf \o U) THEN RoleInfo("invalid_prefix", None)
        ELSE IF core_map(stem) # "none" THEN RoleInfo(core_map(stem), w_core)
        ELSE IF tags # {} THEN
            LET p == CHOOSE t \in tags : TRUE
            IN  RoleInfo(role_map(p), SubSeq(stem, Len(p) + 2, Len(stem)))
        ELSE IF StartsWith(stem, w_svc \o U) THEN RoleInfo("service", None)
        ELSE IF StartsWith(stem, w_mdw \o U) THEN RoleInfo("middleware", None)
        ELSE IF StartsWith(stem, w_hal \o U) THEN RoleInfo("hal", None)
        ELSE IF StartsWith(stem, w_bsp \o U) THEN RoleInfo("bsp", None)
        ELSE IF StartsWith(stem, w_stm \o U) THEN RoleInfo("datastream", None)
        ELSE RoleInfo("unknown", None)

Roles == {"invalid_prefix", "core_idea", "core_poiesis", "core_praxis", "idea", "praxis",
          "poiesis", "feature_cfg", "feature_db", "service", "middleware", "hal", "bsp",
          "datastream", "unknown"}

----------------------------------------------------------------------------
(* Inputs of the classifier run *)

NameHeads == {w_inf, w_ida, w_prx, w_poi, w_cfg, w_db, w_svc, w_mdw, w_hal, w_bsp, w_stm,
              <<"i","n">>, <<"x">> \o w_inf, <<"x">> \o w_ida, <<"I","d","a">>, <<>>}

NameParts == {<<>>, w_core, w_foo, w_ida, <<"f",".","x">>}

RECURSIVE NameTails(_)
NameTails(n) ==
    IF n = 0 THEN {<<>>}
    ELSE {U \o p \o t : p \in NameParts, t \in NameTails(n - 1)}

NameExts == {<<>>, ext_c, ext_h}

FileNames ==
    {h \o t \o e : h \in NameHeads,
                   t \in UNION {NameTails(n) : n \in 0..MaxRestParts},
                   e \in NameExts}

----------------------------------------------------------------------------
(* Paths.  A path is a sequence of segments; the root is an absolute POSIX path. *)

w_infra == <<"i","n","f","r","a">>
w_bootstrap == <<"b","o","o","t","s","t","r","a","p">>
w_service == <<"s","e","r","v","i","c","e">>
w_platform == <<"p","l","a","t","f","o","r","m">>
w_deps == <<"d","e","p","s">>
w_extern == <<"e","x","t","e","r","n">>
w_middleware == <<"m","i","d","d","l","e","w","a","r","e">>
w_features == <<"f","e","a","t","u","r","e","s">>
w_config == <<"c","o","n","f","i","g">>
w_datastreams == <<"d","a","t","a","s","t","r","e","a","m","s">>
w_modules == <<"m","o","d","u","l","e","s">>
w_include == <<"i","n","c","l","u","d","e">>
SEP == "/"
BSL == "\\"

\* the scanned root, Path(args.root).resolve()
root_path == << <<"w">> >>

\* str(path): os.sep before every segment
RECURSIVE PathStr(_)
PathStr(segs) == IF segs = <<>> THEN <<>> ELSE <<SEP>> \o Head(segs) \o PathStr(Tail(segs))

\* the path of a file of the tree: root / dir / name
FilePath(f) == root_path \o f.dir \o <<f.name>>

\* full_path(path_like): os.path.abspath of an already absolute, normalised path
full_path(segs) == PathStr(segs)

\* str.replace("/", "\\")
ReplaceSlash(s) == [i \in 1..Len(s) |-> IF s[i] = SEP THEN BSL ELSE s[i]]

\* test_is_under_path(path_like, base_path)
test_is_under_path(path, base) ==
    LET full  == full_path(path)
        base0 == full_path(base)
        base1 == IF EndsWith(base0, <<SEP>>) THEN base0 ELSE base0 \o <<SEP>>
    IN  StartsWith(Lower(full), Lower(base1))

\* the needle the callers pass for a directory chain: the literal
\* "\\\\a\\\\b\\\\" of the source, i.e. two backslashes before and after each name
SubpathNeedle(names) == Join([i \in 1..Len(names) |-> <<BSL, BSL>> \o names[i]]) \o <<BSL, BSL>>

\* test_contains_subpath(path_like, subpath), subpath given as its directory chain
test_contains_subpath(path, subpath) ==
    LET normalized_path == ReplaceSlash(full_path(path))
        needle == ReplaceSlash(SubpathNeedle(subpath))
    IN  Contains(Lower(normalized_path), Lower(needle))

\* first index >= i of s holding a separator, Len(s) + 1 when there is none
RECURSIVE NextSep(_, _)
NextSep(s, i) ==
    IF i > Len(s) THEN i ELSE IF s[i] \in {SEP, BSL} THEN i ELSE NextSep(s, i + 1)

\* get_feature_from_path: re.search takes the leftmost project/features/<name>
get_feature_from_path(path) ==
    LET normalized == ReplaceSlash(full_path(path))
        needle == <<BSL>> \o w_project \o <<BSL>> \o w_features \o <<BSL>>
        n == Len(needle)
        hits == {i \in 1..(Len(normalized) - n) :
                    /\ SubSeq(normalized, i, i + n - 1) = needle
                    /\ normalized[i + n] \notin {SEP, BSL}}
    IN  IF hits = {} THEN None
        ELSE LET i == CHOOSE h \in hits : \A k \in hits : h <= k
             IN  SubSeq(normalized, i + n, NextSep(normalized, i + n) - 1)

\* test_is_same_feature_header(leaf, prefix, feature)
test_is_same_feature_header(leaf, prefix, feature) ==
    IF feature = None THEN FALSE
    ELSE LET stem == Lower(PathStem(leaf))
             base == Lower(prefix \o U \o feature)
         IN  stem = base \/ StartsWith(stem, base \o U)

\* mutant: the stem rule consulted before the ownership map
test_is_same_feature_include_stem_first(leaf, prefix, feature, owners) ==
    IF feature = None THEN FALSE
    ELSE \/ test_is_same_feature_header(leaf, prefix, feature)
         \/ (leaf \in DOMAIN owners /\ feature \in owners[leaf])

\* test_is_same_feature_include(leaf, prefix, feature, header_feature_owners)
test_is_same_feature_include(leaf, prefix, feature, owners) ==
    IF feature = None THEN FALSE
    ELSE IF leaf \in DOMAIN owners THEN feature \in owners[leaf]
    ELSE test_is_same_feature_header(leaf, prefix, feature)

----------------------------------------------------------------------------
(* Line scanning: the regular expressions of Verify-Comsect1Code.py *)

IsSpace(c) == c \in {" ", "\t"}

WordChars ==
    UpperSet \cup {LowerLetters[i] : i \in 1..26} \cup {Digits[i] : i \in 1..10} \cup {"_"}

\* \w of the re module: letters, digits and the underscore
IsWordCh(c) == c \in WordChars

\* first index >= i of s holding no white space, Len(s) + 1 when there is none
RECURSIVE SkipSpace(_, _)
SkipSpace(s, i) == IF i > Len(s) THEN i ELSE IF IsSpace(s[i]) THEN SkipSpace(s, i + 1) ELSE i

\* last index <= i of s holding no white space, 0 when there is none
RECURSIVE SkipSpaceBack(_, _)
SkipSpaceBack(s, i) == IF i < 1 THEN 0 ELSE IF IsSpace(s[i]) THEN SkipSpaceBack(s, i - 1) ELSE i

\* str.strip()
Strip(s) == SubSeq(s, SkipSpace(s, 1), SkipSpaceBack(s, Len(s)))

\* s[i:i+len(w)] == w
At(s, i, w) == i >= 1 /\ i + Len(w) - 1 <= Len(s) /\ SubSeq(s, i, i + Len(w) - 1) = w

\* first index >= i of s holding a quote or ">", Len(s) + 1 when there is none
RECURSIVE NextDelim(_, _)
NextDelim(s, i) ==
    IF i > Len(s) THEN i ELSE IF s[i] \in {"\"", ">"} THEN i ELSE NextDelim(s, i + 1)

\* INCLUDE_REGEX.match(line): the positions of a match of
\*   ^\s*#\s*include\s*[<"](?P<path>[^">]+)[">]
\* open = index of the opening delimiter, close = index of the closing one, 0 = no match
IncludeMatch(line) ==
    LET i1 == SkipSpace(line, 1)
        i2 == SkipSpace(line, i1 + 1)
        i3 == SkipSpace(line, i2 + Len(w_include))
        j  == NextDelim(line, i3 + 1)
    IN  IF /\ At(line, i1, <<"#">>)
           /\ At(line, i2, w_include)
           /\ i3 <= Len(line) /\ line[i3] \in {"<", "\""}
           /\ j > i3 + 1 /\ j <= Len(line)
        THEN [open |-> i3, close |-> j]
        ELSE [open |-> 0, close |-> 0]

\* SYSTEM_INCLUDE_REGEX.match(raw): ^\s*#\s*include\s*<
IsSystemInclude(raw) ==
    LET i1 == SkipSpace(raw, 1)
        i2 == SkipSpace(raw, i1 + 1)
        i3 == SkipSpace(raw, i2 + Len(w_include))
    IN  At(raw, i1, <<"#">>) /\ At(raw, i2, w_include) /\ At(raw, i3, <<"<">>)

\* position of the last "/" of a path, 0 when there is none
RECURSIVE RFindSlash(_, _)
RFindSlash(s, i) == IF i = 0 THEN 0 ELSE IF s[i] = SEP THEN i ELSE RFindSlash(s, i - 1)

\* os.path.basename on POSIX
Basename(p) == SubSeq(p, RFindSlash(p, Len(p)) + 1, Len(p))

\* get_includes(path): one record per line that matches INCLUDE_REGEX
RECURSIVE IncludesFrom(_, _)
IncludesFrom(lines, n) ==
    IF n > Len(lines) THEN <<>>
    ELSE LET m == IncludeMatch(lines[n])
             include_path == SubSeq(lines[n], m.open + 1, m.close - 1)
         IN  IF m.open = 0 THEN IncludesFrom(lines, n + 1)
             ELSE << [Line |-> n, IncludePath |-> include_path,
                      Leaf |-> Basename(include_path), Raw |-> lines[n]] >>
                  \o IncludesFrom(lines, n + 1)

get_includes(f) == IncludesFrom(f.lines, 1)

\* re.search(r"(^|[\\/])deps([\\/]|$)", include_path)
HasDepsSegment(include_path) ==
    \E i \in 1..Len(include_path) :
        /\ At(include_path, i, w_deps)
        /\ (i = 1 \/ include_path[i - 1] \in {SEP, BSL})
        /\ (i + Len(w_deps) > Len(include_path) \/ include_path[i + Len(w_deps)] \in {SEP, BSL})

\* \bword\b at index i of s, for a word made of word characters
WordAt(s, i, w) ==
    /\ At(s, i, w)
    /\ (i = 1 \/ ~IsWordCh(s[i - 1]))
    /\ (i + Len(w) > Len(s) \/ ~IsWordCh(s[i + Len(w)]))

ConditionalWords == { <<"i","f">>, <<"s","w","i","t","c","h">>, <<"c","a","s","e">> }

DomainWords == { <<"m","o","d","e">>, <<"s","t","a","t","e">>, <<"s","t","a","t","u","s">>,
                 <<"l","e","v","e","l">>, <<"t","y","p","e">>, <<"f","l","a","g">>,
                 <<"e","n","a","b","l","e">>, <<"d","i","s","a","b","l","e">>,
                 <<"a","c","t","i","v","e">>, <<"t","h","r","e","s","h","o","l","d">> }

\* DOMAIN_CONDITIONAL_RE.search(line), re.IGNORECASE
DomainConditional(line) ==
    LET s == Lower(line)
    IN  \E c \in ConditionalWords, d \in DomainWords :
            \E i \in 1..Len(s), j \in 1..Len(s) :
                WordAt(s, i, c) /\ WordAt(s, j, d) /\ j >= i + Len(c)

\* len(DOMAIN_CONDITIONAL_RE.findall(text)): "." stops at the line end and the greedy
\* ".*" runs to the last domain word of a line, so a line holds at most one match
DomainHits(lines) == Cardinality({n \in 1..Len(lines) : DomainConditional(lines[n])})

MIN_IDA_LINES == 10

\* COMMENT_LINE_RE.match(stripped): ^\s*(?://|/\*|\*|\*/)
IsCommentLine(stripped) ==
    \/ StartsWith(stripped, <<"/","/">>)
    \/ StartsWith(stripped, <<"/","*">>)
    \/ StartsWith(stripped, <<"*">>)

\* count_code_lines of Verify-Comsect1Code.py: the scan from line n on
RECURSIVE CountFrom(_, _, _)
CountFrom(lines, n, in_block_comment) ==
    IF n > Len(lines) THEN 0
    ELSE LET stripped == Strip(lines[n])
         IN  IF in_block_comment
             THEN CountFrom(lines, n + 1, ~Contains(stripped, <<"*","/">>))
             ELSE IF /\ StartsWith(stripped, <<"/","*">>)
                     /\ ~Contains(SubSeq(stripped, 3, Len(stripped)), <<"*","/">>)
             THEN CountFrom(lines, n + 1, TRUE)
             ELSE IF stripped = <<>> \/ IsCommentLine(stripped)
             THEN CountFrom(lines, n + 1, FALSE)
             ELSE IF StartsWith(stripped, <<"#">>)
             THEN CountFrom(lines, n + 1, FALSE)
             ELSE 1 + CountFrom(lines, n + 1, FALSE)

count_code_lines(f) == IF f.readable THEN CountFrom(f.lines, 1, FALSE) ELSE 0

----------------------------------------------------------------------------
(* Findings and the file system seen by Verify-Comsect1Code.py main *)

\* add_finding: Message is the message template, Arg its variable part
Finding(severity, file, line, rule, message, arg) ==
    [Severity |-> severity, File |-> file, Line |-> line, Rule |-> rule,
     Message |-> message, Arg |-> arg]

err(file, line, rule, message, arg) == Finding("error", file, line, rule, message, arg)

Opt(cond, finding) == IF cond THEN <<finding>> ELSE <<>>

SOURCE_EXTENSIONS == {ext_c, ext_h, <<".","c","p","p">>, <<".","h","p","p">>}
HeaderExtensions == {ext_h, <<".","h","p","p">>}

cfg_core_h    == w_cfg \o U \o w_core \o ext_h
cfg_project_h == w_cfg \o U \o w_project \o ext_h
db_project_h  == w_db \o U \o w_project \o ext_h
ida_core_h    == w_ida \o U \o w_core \o ext_h
prx_core_h    == w_prx \o U \o w_core \o ext_h
poi_core_h    == w_poi \o U \o w_core \o ext_h

infra_bootstrap_dir     == <<w_infra, w_bootstrap>>
infra_service_dir       == <<w_infra, w_service>>
infra_hal_dir           == <<w_infra, w_platform, w_hal>>
infra_bsp_dir           == <<w_infra, w_platform, w_bsp>>
deps_root_dir           == <<w_deps>>
deps_extern_dir         == <<w_deps, w_extern>>
deps_middleware_dir     == <<w_deps, w_middleware>>
project_features_dir    == <<w_project, w_features>>
project_config_dir      == <<w_project, w_config>>
project_datastreams_dir == <<w_project, w_datastreams>>
core_config_dir         == <<w_core, w_config>>
legacy_features_dir     == <<w_features>>
legacy_modules_dir      == <<w_modules>>
legacy_platform_dir     == <<w_platform>>

SeqRange(q) == {q[i] : i \in 1..Len(q)}

\* the directories below the root: the given ones with their ancestors, and every
\* ancestor of a file
AllDirs(files, given) ==
    UNION {{SubSeq(d, 1, k) : k \in 1..Len(d)} : d \in given}
    \cup UNION {{SubSeq(f.dir, 1, k) : k \in 0..Len(f.dir)} : f \in SeqRange(files)}

\* Path.is_dir() of root / d
is_dir(files, given, d) == d \in AllDirs(files, given)

\* Path.is_file() of root / d / name
is_file(files, d, name) == \E f \in SeqRange(files) : f.dir = d /\ f.name = name

RECURSIVE SelectSeq2(_, _)
SelectSeq2(q, keep) ==
    IF q = <<>> THEN <<>>
    ELSE (IF Head(q) \in keep THEN <<Head(q)>> ELSE <<>>) \o SelectSeq2(Tail(q), keep)

\* collect_source_files(root): the walk order, filtered on the lowered suffix
collect_source_files(files) ==
    SelectSeq2(files, {f \in SeqRange(files) : Lower(PathSuffix(f.name)) \in SOURCE_EXTENSIONS})

\* lines 272-276: the names of project_config_dir.glob("*.h")
ProjectConfigNames(files, given) ==
    IF is_dir(files, given, project_config_dir)
    THEN {f.name : f \in {g \in SeqRange(files) :
                              g.dir = project_config_dir /\ EndsWith(g.name, ext_h)}}
    ELSE {}

\* mutant: a root without source files reports nothing but the missing sources
LayoutFindings_empty_root_only(files, given, sources) ==
    IF sources = <<>>
    THEN <<err(PathStr(root_path), 1, "layout.required", "No source files found under", <<>>)>>
    ELSE Opt(~is_dir(files, given, infra_bootstrap_dir),
             err(PathStr(root_path), 1, "layout.required", "Missing required infra bootstrap path", <<>>))

\* lines 258-296: the layout findings, in the order the code emits them
LayoutFindings(files, given, sources) ==
    LET root == PathStr(root_path)
    IN  Opt(~is_dir(files, given, infra_bootstrap_dir),
            err(root, 1, "layout.required", "Missing required infra bootstrap path", <<>>))
     \o Opt(~is_dir(files, given, deps_root_dir),
            err(root, 1, "layout.required", "Missing required dependency repository path", <<>>))
     \o Opt(~is_file(files, infra_bootstrap_dir, cfg_core_h),
            err(root, 1, "layout.required", "Missing required Core Contract header", <<>>))
     \o Opt(is_dir(files, given, core_config_dir),
            err(root, 1, "layout.legacy", "Legacy core config folder detected", <<>>))
     \o (IF is_dir(files, given, project_config_dir)
         THEN Opt(cfg_project_h \notin ProjectConfigNames(files, given),
                  err(PathStr(root_path \o project_config_dir), 1, "layout.required",
                      "Missing required project target interface header", <<>>))
         ELSE <<err(root, 1, "layout.required", "Missing required project config folder", <<>>)>>)
     \o Opt(is_dir(files, given, legacy_features_dir),
            err(root, 1, "layout.legacy", "Legacy features folder detected", <<>>))
     \o Opt(is_dir(files, given, legacy_modules_dir),
            err(root, 1, "layout.legacy", "Legacy modules folder detected", <<>>))
     \o Opt(is_dir(files, given, legacy_platform_dir),
            err(root, 1, "layout.legacy", "Legacy platform folder detected", <<>>))
     \o Opt(sources = <<>>,
            err(root, 1, "layout.required", "No source files found under", <<>>))

\* lines 298-305: header leaf name -> features owning a copy
HeaderFeatureOwners(sources) ==
    LET owned == {f \in SeqRange(sources) :
                    /\ Lower(PathSuffix(f.name)) \in HeaderExtensions
                    /\ get_feature_from_path(FilePath(f)) # None}
    IN  [n \in {f.name : f \in owned} |->
            {get_feature_from_path(FilePath(f)) : f \in {g \in owned : g.name = n}}]

\* lines 307-342: names of the resource headers inside the project folders
ProjectResourceHeaderNames(sources) ==
    {f.name : f \in {c \in SeqRange(sources) :
        /\ Lower(PathSuffix(c.name)) \in HeaderExtensions
        /\ get_role_info(c.name).role \in {"feature_cfg", "feature_db", "datastream"}
        /\ LET candidate_path == FilePath(c)
               under(d) == test_is_under_path(candidate_path, root_path \o d)
               nested == under(deps_extern_dir) \/ under(deps_middleware_dir)
               under_any(d) == under(d) \/ (nested /\ test_contains_subpath(candidate_path, d))
           IN  \/ under_any(project_features_dir)
               \/ under_any(project_config_dir)
               \/ under_any(project_datastreams_dir)}}

----------------------------------------------------------------------------
(* The per-file loop of Verify-Comsect1Code.py main, lines 344-544 *)

P_(w) == w \o U

\* lines 347-355: is_under_<dir> = test_is_under_path(full_file_path, <dir>)
IsUnder(f, d) == test_is_under_path(FilePath(f), root_path \o d)

\* line 357: is_nested_deps_unit
IsNestedDepsUnit(f) == IsUnder(f, deps_extern_dir) \/ IsUnder(f, deps_middleware_dir)

\* lines 358-364: has_<dir>_segment = test_contains_subpath(full_file_path, <needle>)
HasSegment(f, d) == test_contains_subpath(FilePath(f), d)

\* lines 366-378: is_under_any_<dir>
IsUnderAny(f, d) == IsUnder(f, d) \/ (IsNestedDepsUnit(f) /\ HasSegment(f, d))

\* mutant: every feature-scoped role must lie under the features folder
LocationFindings_features_only(f, role) ==
    Opt(/\ role \in {"idea", "praxis", "poiesis", "feature_cfg", "feature_db"}
        /\ ~IsUnder(f, project_features_dir),
        err(PathStr(FilePath(f)), 1, "path.project_feature",
            "feature files must be located under /project/features", <<>>))

\* lines 397-437: the location checks of a file with a known role
LocationFindings(f, role) ==
    LET file == PathStr(FilePath(f))
        lname == Lower(f.name)
        external == /\ IsNestedDepsUnit(f)
                    /\ ~HasSegment(f, project_features_dir)
                    /\ ~HasSegment(f, project_config_dir)
        E(rule, message) == <<err(file, 1, rule, message, <<>>)>>
    IN  Opt(lname = cfg_core_h /\ ~IsUnderAny(f, infra_bootstrap_dir),
            err(file, 1, "path.bootstrap", "cfg_core.h must be located under /infra/bootstrap", <<>>))
     \o (IF role = "core_idea" /\ ~IsUnderAny(f, infra_bootstrap_dir)
            THEN E("path.bootstrap", "ida_core must be located under /infra/bootstrap")
         ELSE IF role = "core_poiesis" /\ ~IsUnderAny(f, infra_bootstrap_dir)
            THEN E("path.bootstrap", "poi_core must be located under /infra/bootstrap")
         ELSE IF role = "core_praxis" /\ ~IsUnderAny(f, infra_bootstrap_dir)
            THEN E("path.bootstrap", "prx_core must be located under /infra/bootstrap")
         ELSE IF role = "service" /\ ~IsUnderAny(f, infra_service_dir)
            THEN E("path.infra_service", "svc_* files must be located under /infra/service")
         ELSE IF role = "hal" /\ ~IsUnderAny(f, infra_hal_dir)
            THEN E("path.infra_hal", "hal_* files must be located under /infra/platform/hal")
         ELSE IF role = "bsp" /\ ~IsUnderAny(f, infra_bsp_dir)
            THEN E("path.infra_bsp", "bsp_* files must be located under /infra/platform/bsp")
         ELSE IF /\ role = "middleware"
                 /\ ~IsUnder(f, deps_middleware_dir) /\ ~IsUnder(f, deps_extern_dir)
            THEN E("path.deps_middleware", "mdw_* files must be located under /deps/middleware or /deps/extern")
         ELSE IF role = "idea" /\ ~IsUnderAny(f, project_features_dir)
            THEN E("path.project_feature", "ida_* feature files must be located under /project/features")
         ELSE IF role = "praxis" /\ ~IsUnderAny(f, project_features_dir)
            THEN E("path.project_feature", "prx_* feature files must be located under /project/features")
         ELSE IF role = "poiesis" /\ ~IsUnderAny(f, project_features_dir)
            THEN E("path.project_feature", "poi_* feature files must be located under /project/features")
         ELSE IF role = "feature_cfg"
            THEN IF ~external /\ lname # cfg_core_h
                 THEN IF lname = cfg_project_h
                      THEN Opt(~IsUnderAny(f, project_config_dir),
                               err(file, 1, "path.project_config",
                                   "cfg_project.h must be located under /project/config", <<>>))
                      ELSE Opt(/\ ~IsUnderAny(f, project_features_dir)
                               /\ ~IsUnderAny(f, project_config_dir),
                               err(file, 1, "path.feature_resource",
                                   "cfg_* feature files must be located under /project/features/ or /project/config/",
                                   f.name))
                 ELSE <<>>
         ELSE IF role = "feature_db"
            THEN IF ~external
                 THEN IF lname = db_project_h
                      THEN Opt(~IsUnderAny(f, project_config_dir),
                               err(file, 1, "path.project_config",
                                   "db_project.h must be located under /project/config", <<>>))
                      ELSE Opt(/\ ~IsUnderAny(f, project_features_dir)
                               /\ ~IsUnderAny(f, project_config_dir),
                               err(file, 1, "path.feature_resource",
                                   "db_* feature files must be located under /project/features/ or /project/config/",
                                   f.name))
                 ELSE <<>>
         ELSE IF /\ role = "datastream"
                 /\ ~IsUnderAny(f, project_datastreams_dir)
                 /\ ~IsUnder(f, deps_middleware_dir)
                 /\ ~IsUnder(f, deps_extern_dir)
            THEN <<err(file, 1, "path.datastream",
                       "stm_* files must be located under /project/datastreams/, /deps/middleware/, or /deps/extern/",
                       f.name)>>
         ELSE <<>>)

\* mutant: the project interface header takes the place of the Core contract
IsCoreCfg_project_header(leaf) == leaf \in {cfg_project_h}

\* line 458: is_core_cfg = leaf in core_config_names
IsCoreCfg(leaf) == leaf \in {cfg_core_h}

\* mutant: only cfg_project.h counts as a project-level header
IsProjectCfg_interface_only(leaf, config_names) == leaf = cfg_project_h /\ leaf \in config_names

\* line 459: is_project_cfg = leaf in project_config_names
IsProjectCfg(leaf, config_names) == leaf \in config_names

\* re.match(r"^<prefix>_", leaf)
HasPrefix(inc, prefix) == StartsWith(inc.Leaf, prefix \o U)

HasAnyPrefix(inc, prefixes) == \E x \in prefixes : HasPrefix(inc, x)

Same(inc, prefix, feature, owners) ==
    test_is_same_feature_include(inc.Leaf, prefix, feature, owners)

\* err(str(file), line_no, rule, message) guarded by its condition
IncErr(cond, file, inc, rule, message) ==
    Opt(cond, err(file, inc.Line, rule, message, inc.IncludePath))

\* lines 454-456
DepsPathRule(file, role, inc) ==
    IncErr(/\ role \in {"core_idea", "core_poiesis", "core_praxis", "idea", "praxis", "poiesis"}
           /\ HasDepsSegment(inc.IncludePath),
           file, inc, "include.deps_path",
           "Do not include dependency repository paths directly from core/project layers")

\* lines 460-468
CoreIdeaRules(file, inc) ==
       IncErr(HasPrefix(inc, w_prx) /\ inc.Leaf # prx_core_h,
              file, inc, "ida_core.include", "ida_core must not include feature praxis")
    \o IncErr(HasPrefix(inc, w_poi) /\ inc.Leaf # poi_core_h,
              file, inc, "ida_core.include", "ida_core must not include feature poiesis")
    \o IncErr(HasPrefix(inc, w_cfg) /\ ~IsCoreCfg(inc.Leaf),
              file, inc, "ida_core.include", "ida_core may include only core contract headers")
    \o IncErr(HasAnyPrefix(inc, {w_db, w_stm, w_mdw, w_svc, w_hal, w_bsp}),
              file, inc, "ida_core.include",
              "ida_core must not include lower layer/resource headers directly")

\* mutant: the resource headers of the file's own feature are allowed
IdeaRules_own_resources_allowed(file, feature, inc, owners) ==
       IncErr(HasPrefix(inc, w_prx) /\ ~Same(inc, w_prx, feature, owners),
              file, inc, "ida.include", "Idea must include only its own feature Praxis headers")
    \o IncErr(HasPrefix(inc, w_poi) /\ ~Same(inc, w_poi, feature, owners),
              file, inc, "ida.include", "Idea must include only its own feature Poiesis headers")
    \o IncErr(HasPrefix(inc, w_ida) /\ ~Same(inc, w_ida, feature, owners),
              file, inc, "ida.include", "Idea must not include other features' Idea headers")
    \o IncErr(HasPrefix(inc, w_cfg) /\ ~IsCoreCfg(inc.Leaf) /\ ~Same(inc, w_cfg, feature, owners),
              file, inc, "ida.include", "Idea must not include cfg_ directly (except core contract)")
    \o IncErr(HasAnyPrefix(inc, {w_db, w_stm, w_mdw, w_svc, w_hal, w_bsp})
                 /\ ~Same(inc, w_db, feature, owners),
              file, inc, "ida.include", "Idea must not include lower layer/resource headers directly")

\* lines 470-480
IdeaRules(file, feature, inc, owners) ==
       IncErr(HasPrefix(inc, w_prx) /\ ~Same(inc, w_prx, feature, owners),
              file, inc, "ida.include", "Idea must include only its own feature Praxis headers")
    \o IncErr(HasPrefix(inc, w_poi) /\ ~Same(inc, w_poi, feature, owners),
              file, inc, "ida.include", "Idea must include only its own feature Poiesis headers")
    \o IncErr(HasPrefix(inc, w_ida) /\ ~Same(inc, w_ida, feature, owners),
              file, inc, "ida.include", "Idea must not include other features' Idea headers")
    \o IncErr(HasPrefix(inc, w_cfg) /\ ~IsCoreCfg(inc.Leaf),
              file, inc, "ida.include", "Idea must not include cfg_ directly (except core contract)")
    \o IncErr(HasAnyPrefix(inc, {w_db, w_stm, w_mdw, w_svc, w_hal, w_bsp}),
              file, inc, "ida.include", "Idea must not include lower layer/resource headers directly")

\* lines 482-490
CorePoiesisRules(file, inc) ==
       IncErr(HasPrefix(inc, w_ida) /\ inc.Leaf # ida_core_h,
              file, inc, "poi_core.include", "poi_core must not include feature ideas")
    \o IncErr(HasAnyPrefix(inc, {w_prx, w_poi}) /\ inc.Leaf # poi_core_h,
              file, inc, "poi_core.include", "poi_core must not include feature PRX/POI headers")
    \o IncErr(HasAnyPrefix(inc, {w_hal, w_bsp}),
              file, inc, "poi_core.include", "poi_core must not include platform headers directly")
    \o IncErr(HasPrefix(inc, w_cfg) /\ ~IsCoreCfg(inc.Leaf),
              file, inc, "poi_core.include", "poi_core may include only core contract headers")

\* lines 492-500
CorePraxisRules(file, inc) ==
       IncErr(HasPrefix(inc, w_ida) /\ inc.Leaf # ida_core_h,
              file, inc, "prx_core.include", "prx_core must not include feature ideas")
    \o IncErr(HasAnyPrefix(inc, {w_prx, w_poi}) /\ inc.Leaf \notin {prx_core_h, poi_core_h},
              file, inc, "prx_core.include", "prx_core must not include feature PRX/POI headers")
    \o IncErr(HasAnyPrefix(inc, {w_hal, w_bsp}),
              file, inc, "prx_core.include", "prx_core must not include platform headers directly")
    \o IncErr(HasPrefix(inc, w_cfg) /\ ~IsCoreCfg(inc.Leaf),
              file, inc, "prx_core.include", "prx_core may include only core contract headers")

\* mutant: Praxis may include the Idea header of its own feature
PraxisRules_own_idea_allowed(file, feature, inc, owners, config_names) ==
       IncErr(HasPrefix(inc, w_ida) /\ ~Same(inc, w_ida, feature, owners),
              file, inc, "prx.include", "Praxis must not include Idea headers")
    \o IncErr(HasPrefix(inc, w_prx) /\ ~Same(inc, w_prx, feature, owners),
              file, inc, "prx.include", "Praxis must not include other features' Praxis")
    \o IncErr(HasPrefix(inc, w_poi) /\ ~Same(inc, w_poi, feature, owners),
              file, inc, "prx.include", "Praxis must not include other features' Poiesis")
    \o IncErr(/\ HasPrefix(inc, w_cfg) /\ ~IsCoreCfg(inc.Leaf)
              /\ ~IsProjectCfg(inc.Leaf, config_names) /\ ~Same(inc, w_cfg, feature, owners),
              file, inc, "prx.include", "Praxis must not include other features' config")
    \o IncErr(/\ HasPrefix(inc, w_db)
              /\ ~IsProjectCfg(inc.Leaf, config_names) /\ ~Same(inc, w_db, feature, owners),
              file, inc, "prx.include", "Praxis must not include other features' database headers")

\* lines 502-512
PraxisRules(file, feature, inc, owners, config_names) ==
       IncErr(HasPrefix(inc, w_ida),
              file, inc, "prx.include", "Praxis must not include Idea headers")
    \o IncErr(HasPrefix(inc, w_prx) /\ ~Same(inc, w_prx, feature, owners),
              file, inc, "prx.include", "Praxis must not include other features' Praxis")
    \o IncErr(HasPrefix(inc, w_poi) /\ ~Same(inc, w_poi, feature, owners),
              file, inc, "prx.include", "Praxis must not include other features' Poiesis")
    \o IncErr(/\ HasPrefix(inc, w_cfg) /\ ~IsCoreCfg(inc.Leaf)
              /\ ~IsProjectCfg(inc.Leaf, config_names) /\ ~Same(inc, w_cfg, feature, owners),
              file, inc, "prx.include", "Praxis must not include other features' config")
    \o IncErr(/\ HasPrefix(inc, w_db)
              /\ ~IsProjectCfg(inc.Leaf, config_names) /\ ~Same(inc, w_db, feature, owners),
              file, inc, "prx.include", "Praxis must not include other features' database headers")

\* mutant: the Idea and the Praxis checks both fire on an ida_ leaf
PoiesisRules_idea_counted_twice(file, feature, inc, owners, config_names) ==
       IncErr(HasPrefix(inc, w_ida),
              file, inc, "poi.include", "Poiesis must not include Idea headers")
    \o IncErr(HasAnyPrefix(inc, {w_ida, w_prx}),
              file, inc, "poi.include", "Poiesis must not include Praxis headers (no reverse dependency)")
    \o IncErr(HasPrefix(inc, w_poi) /\ ~Same(inc, w_poi, feature, owners),
              file, inc, "poi.include", "Poiesis must not include other features' Poiesis")
    \o IncErr(/\ HasPrefix(inc, w_cfg) /\ ~IsCoreCfg(inc.Leaf)
              /\ ~IsProjectCfg(inc.Leaf, config_names) /\ ~Same(inc, w_cfg, feature, owners),
              file, inc, "poi.include", "Poiesis must not include other features' config")
    \o IncErr(/\ HasPrefix(inc, w_db)
              /\ ~IsProjectCfg(inc.Leaf, config_names) /\ ~Same(inc, w_db, feature, owners),
              file, inc, "poi.include", "Poiesis must not include other features' database headers")

\* lines 514-524
PoiesisRules(file, feature, inc, owners, config_names) ==
       IncErr(HasPrefix(inc, w_ida),
              file, inc, "poi.include", "Poiesis must not include Idea headers")
    \o IncErr(HasPrefix(inc, w_prx),
              file, inc, "poi.include", "Poiesis must not include Praxis headers (no reverse dependency)")
    \o IncErr(HasPrefix(inc, w_poi) /\ ~Same(inc, w_poi, feature, owners),
              file, inc, "poi.include", "Poiesis must not include other features' Poiesis")
    \o IncErr(/\ HasPrefix(inc, w_cfg) /\ ~IsCoreCfg(inc.Leaf)
              /\ ~IsProjectCfg(inc.Leaf, config_names) /\ ~Same(inc, w_cfg, feature, owners),
              file, inc, "poi.include", "Poiesis must not include other features' config")
    \o IncErr(/\ HasPrefix(inc, w_db)
              /\ ~IsProjectCfg(inc.Leaf, config_names) /\ ~Same(inc, w_db, feature, owners),
              file, inc, "poi.include", "Poiesis must not include other features' database headers")

\* mutant: the Core files are exempt from the resource rule
ResourceRules_core_exempt(file, inc) ==
    IncErr(/\ HasAnyPrefix(inc, {w_ida, w_prx, w_poi})
           /\ inc.Leaf \notin {ida_core_h, prx_core_h, poi_core_h},
           file, inc, "resource.include", "Resources must not include upper-layer headers")

\* lines 526-528
ResourceRules(file, inc) ==
    IncErr(HasAnyPrefix(inc, {w_ida, w_prx, w_poi}),
           file, inc, "resource.include", "Resources must not include upper-layer headers")

\* mutant: the resource rule of modules goes by the header's name alone
ModuleRules_by_name(file, inc, resource_names) ==
       IncErr(HasAnyPrefix(inc, {w_ida, w_prx, w_poi}),
              file, inc, "module.include", "Modules must not include upper-layer headers")
    \o IncErr(/\ get_role_info(inc.Leaf).role \in {"feature_cfg", "feature_db", "datastream"}
              /\ ~IsCoreCfg(inc.Leaf),
              file, inc, "module.resource", "Modules must not include resources (cfg_/db_/stm_) directly")

\* lines 530-534
ModuleRules(file, inc, resource_names) ==
       IncErr(HasAnyPrefix(inc, {w_ida, w_prx, w_poi}),
              file, inc, "module.include", "Modules must not include upper-layer headers")
    \o IncErr(inc.Leaf \in resource_names /\ ~IsCoreCfg(inc.Leaf),
              file, inc, "module.resource", "Modules must not include resources (cfg_/db_/stm_) directly")

\* mutant: the direction rule applied both ways
PlatformRules_both_directions(file, role, inc, resource_names) ==
       IncErr(\/ role = "bsp" /\ HasPrefix(inc, w_hal)
              \/ role = "hal" /\ HasPrefix(inc, w_bsp),
              file, inc, "platform.direction", "BSP must not include HAL headers (direction is HAL -> BSP)")
    \o IncErr(HasAnyPrefix(inc, {w_ida, w_prx, w_poi, w_mdw, w_svc}),
              file, inc, "platform.include", "Platform must not include upper-layer/resource/module headers")

\* lines 536-544
PlatformRules(file, role, inc, resource_names) ==
       IncErr(role = "bsp" /\ HasPrefix(inc, w_hal),
              file, inc, "platform.direction", "BSP must not include HAL headers (direction is HAL -> BSP)")
    \o IncErr(\/ HasAnyPrefix(inc, {w_ida, w_prx, w_poi, w_mdw, w_svc})
              \/ (inc.Leaf \in resource_names /\ ~IsCoreCfg(inc.Leaf)),
              file, inc, "platform.include", "Platform must not include upper-layer/resource/module headers")

\* lines 454-544: the findings of one non-system include
IncludeFindings(file, role, feature, inc, owners, config_names, resource_names) ==
       DepsPathRule(file, role, inc)
    \o (CASE role = "core_idea"    -> CoreIdeaRules(file, inc)
          [] role = "idea"         -> IdeaRules(file, feature, inc, owners)
          [] role = "core_poiesis" -> CorePoiesisRules(file, inc)
          [] role = "core_praxis"  -> CorePraxisRules(file, inc)
          [] role = "praxis"       -> PraxisRules(file, feature, inc, owners, config_names)
          [] role = "poiesis"      -> PoiesisRules(file, feature, inc, owners, config_names)
          [] OTHER -> <<>>)
    \o (IF role \in {"feature_cfg", "feature_db", "datastream"}
        THEN ResourceRules(file, inc) ELSE <<>>)
    \o (IF role \in {"service", "middleware"}
        THEN ModuleRules(file, inc, resource_names) ELSE <<>>)
    \o (IF role \in {"hal", "bsp"}
        THEN PlatformRules(file, role, inc, resource_names) ELSE <<>>)

\* lines 445-452: the include loop of one file, system includes dropped
RECURSIVE IncludeLoop(_, _, _, _, _, _, _)
IncludeLoop(file, role, feature, includes, owners, config_names, resource_names) ==
    IF includes = <<>> THEN <<>>
    ELSE (IF IsSystemInclude(Head(includes).Raw) THEN <<>>
          ELSE IncludeFindings(file, role, feature, Head(includes), owners,
                               config_names, resource_names))
         \o IncludeLoop(file, role, feature, Tail(includes), owners, config_names, resource_names)

\* mutant: a file of unknown role reported wherever it lies
FileFindings_unknown_anywhere(f, owners, config_names, resource_names) ==
    LET file == PathStr(FilePath(f))
        role == get_role_info(f.name).role
    IN  IF role \in {"invalid_prefix", "unknown"}
        THEN <<err(file, 1, "naming.prefix", "Unknown architecture file role prefix", f.name)>>
        ELSE LocationFindings(f, role)

\* mutant: the loop goes on after the naming finding of a file without a role
FileFindings_no_continue(f, owners, config_names, resource_names) ==
    LET file == PathStr(FilePath(f))
        info == get_role_info(f.name)
        role == info.role
        feature_from_path == get_feature_from_path(FilePath(f))
        feature == IF feature_from_path # None THEN feature_from_path ELSE info.feature
    IN  Opt(role = "invalid_prefix",
            err(file, 1, "naming.prefix", "Invalid role prefix 'inf_'", <<>>))
     \o Opt(/\ role = "unknown"
            /\ \/ IsUnder(f, project_features_dir) \/ IsUnder(f, project_config_dir)
               \/ IsUnder(f, project_datastreams_dir) \/ IsUnder(f, infra_bootstrap_dir),
            err(file, 1, "naming.prefix", "Unknown architecture file role prefix", f.name))
     \o LocationFindings(f, role)
     \o (IF ~f.readable \/ ~f.utf8
         THEN <<err(file, 1, "read", "Failed to read file", <<>>)>>
         ELSE IncludeLoop(file, role, feature, get_includes(f), owners,
                          config_names, resource_names))

\* lines 344-544: the findings of one iteration of the per-file loop
FileFindings(f, owners, config_names, resource_names) ==
    LET file == PathStr(FilePath(f))
        info == get_role_info(f.name)
        role == info.role
        feature_from_path == get_feature_from_path(FilePath(f))
        feature == IF feature_from_path # None THEN feature_from_path ELSE info.feature
    IN  IF role = "invalid_prefix"
        THEN <<err(file, 1, "naming.prefix", "Invalid role prefix 'inf_'", <<>>)>>
        ELSE IF role = "unknown"
        THEN Opt(\/ IsUnder(f, project_features_dir) \/ IsUnder(f, project_config_dir)
                 \/ IsUnder(f, project_datastreams_dir) \/ IsUnder(f, infra_bootstrap_dir),
                 err(file, 1, "naming.prefix", "Unknown architecture file role prefix", f.name))
        ELSE LocationFindings(f, role)
             \o (IF ~f.readable \/ ~f.utf8
                 THEN <<err(file, 1, "read", "Failed to read file", <<>>)>>
                 ELSE IncludeLoop(file, role, feature, get_includes(f), owners,
                                  config_names, resource_names))

\* mutant: the red flags examined for every scanned extension
RedFlagsOf_any_extension(f) ==
    LET file == PathStr(FilePath(f))
        role == get_role_info(f.name).role
    IN  Opt(role = "idea" /\ count_code_lines(f) < MIN_IDA_LINES,
            Finding("warning", file, 0, "red-flag-empty-idea",
                    "ida_ source has only N code lines", NatStr(count_code_lines(f))))

\* lines 176-216: verify_red_flags for one file
RedFlagsOf(f) ==
    LET file == PathStr(FilePath(f))
        role == get_role_info(f.name).role
    IN  IF Lower(PathSuffix(f.name)) # ext_c THEN <<>>
        ELSE Opt(role = "idea" /\ count_code_lines(f) < MIN_IDA_LINES,
                 Finding("warning", file, 0, "red-flag-empty-idea",
                         "ida_ source has only N code lines", NatStr(count_code_lines(f))))
          \o Opt(role = "poiesis" /\ f.readable /\ DomainHits(f.lines) > 0,
                 Finding("warning", file, 0, "red-flag-fat-poiesis",
                         "poi_ source contains N domain-meaningful conditional(s)",
                         NatStr(DomainHits(f.lines))))

RECURSIVE verify_red_flags(_)
verify_red_flags(sources) ==
    IF sources = <<>> THEN <<>> ELSE RedFlagsOf(Head(sources)) \o verify_red_flags(Tail(sources))

----------------------------------------------------------------------------
(* The order of str values and of the findings on the console *)

\* code points in increasing order, restricted to the characters of the model
CodePointOrder ==
    << "\t", " ", "!", "\"", "#", "'", "(", ")", "*", ",", "-", ".", "/" >> \o Digits
      \o << ":", ";", "<", "=", ">", "?" >> \o UpperLetters
      \o << "[", "\\", "]", "^", "_" >> \o LowerLetters \o << "{", "|", "}" >>

CodePointRank == [c \in SeqRange(CodePointOrder) |->
                     CHOOSE i \in 1..Len(CodePointOrder) : CodePointOrder[i] = c]

\* a < b for two str values
RECURSIVE StrLess(_, _)
StrLess(a, b) ==
    IF b = <<>> THEN FALSE
    ELSE IF a = <<>> THEN TRUE
    ELSE IF Head(a) # Head(b) THEN CodePointRank[Head(a)] < CodePointRank[Head(b)]
    ELSE StrLess(Tail(a), Tail(b))

\* the rule identifiers of Verify-Comsect1Code.py in increasing str order
IncRuleOrder ==
    << "ida.include", "ida_core.include", "include.deps_path", "layout.legacy",
       "layout.required", "module.include", "module.resource", "naming.prefix",
       "path.bootstrap", "path.datastream", "path.deps_middleware",
       "path.feature_resource", "path.infra_bsp", "path.infra_hal",
       "path.infra_service", "path.project_config", "path.project_feature",
       "platform.direction", "platform.include", "poi.include", "poi_core.include",
       "prx.include", "prx_core.include", "read", "red-flag-empty-idea",
       "red-flag-fat-poiesis", "resource.include" >>

IncRuleRank == [r \in SeqRange(IncRuleOrder) |->
                   CHOOSE i \in 1..Len(IncRuleOrder) : IncRuleOrder[i] = r]

\* lines 556 and 558: the key (str(File), int(Line), str(Rule)) of sorted()
IncKeyLess(a, b) ==
    IF a.File # b.File THEN StrLess(a.File, b.File)
    ELSE IF a.Line # b.Line THEN a.Line < b.Line
    ELSE IncRuleRank[a.Rule] < IncRuleRank[b.Rule]

RECURSIVE IncInsertFinding(_, _)
IncInsertFinding(x, q) ==
    IF q = <<>> THEN <<x>>
    ELSE IF IncKeyLess(x, Head(q)) THEN <<x>> \o q
    ELSE <<Head(q)>> \o IncInsertFinding(x, Tail(q))

\* sorted(fs, key=...): stable
RECURSIVE IncSorted(_)
IncSorted(q) ==
    IF q = <<>> THEN <<>>
    ELSE IncInsertFinding(q[Len(q)], IncSorted(SubSeq(q, 1, Len(q) - 1)))

----------------------------------------------------------------------------
(* Verify-Comsect1Code.py main as a state machine *)

\* a file below the root: lines is its text as a read with errors="replace" decodes
\* it, readable tells whether opening it succeeds, utf8 whether its bytes are valid
\* UTF-8 (a strict read of the others raises UnicodeDecodeError)
File(dir, name, lines) ==
    [dir |-> dir, name |-> name, lines |-> lines, readable |-> TRUE, utf8 |-> TRUE]

\* U+FFFD, which a read with errors="replace" puts for an undecodable byte
ReplacementChar == "U+FFFD"

----------------------------------------------------------------------------
(* The file system below a directory, as the report writers, the gate driver and the
   scaffold generator change it *)

\* Path.exists(): the path is a file or a directory
path_exists(files, given, dir, name) ==
    is_file(files, dir, name) \/ is_dir(files, given, dir \o <<name>>)

\* Path.write_text on a path whose parent is a directory and that is no directory
\* itself: the file is created or replaced
write_text(files, dir, name, content) ==
    IF is_file(files, dir, name)
    THEN [k \in 1..Len(files) |->
             IF files[k].dir = dir /\ files[k].name = name
             THEN File(dir, name, content) ELSE files[k]]
    ELSE Append(files, File(dir, name, content))

\* Path.mkdir(parents=True, exist_ok=True) on the directory d below the root: the
\* message of the OSError it raises, "" when it returns
mkdir_error(files, d) ==
    IF d = <<>> THEN ""
    ELSE IF is_file(files, SubSeq(d, 1, Len(d) - 1), d[Len(d)]) THEN "[Errno 17] File exists"
    ELSE IF \E k \in 1..(Len(d) - 1) : is_file(files, SubSeq(d, 1, k - 1), d[k])
    THEN "[Errno 20] Not a directory"
    ELSE ""

\* the directories after a mkdir that returned
mkdir(given, d) == given \cup {SubSeq(d, 1, k) : k \in 1..Len(d)}

\* the text of a JSON report, which no step reads
json_text == << <<"{","}">> >>

w_report_json == <<"r","e","p","o","r","t",".","j","s","o","n">>

\* the working directory of a verifier before the run: empty
EmptyOut == [files |-> <<>>, dirs |-> {}]

\* lines 227-229, and Verify-OOPCode.py lines 467-468: path.parent.mkdir(parents=True,
\* exist_ok=True) and path.write_text in the directory o; raised is the OSError that
\* ends them, <<>> when the report is written
write_json_no_bom(o, path) ==
    LET dir == SubSeq(path, 1, Len(path) - 1)
        name == path[Len(path)]
    IN  IF mkdir_error(o.files, dir) # ""
        THEN [out |-> o, raised |-> <<mkdir_error(o.files, dir), dir>>]
        ELSE IF is_dir(o.files, mkdir(o.dirs, dir), path)
        THEN [out |-> [o EXCEPT !.dirs = mkdir(o.dirs, dir)],
              raised |-> <<"[Errno 21] Is a directory", path>>]
        ELSE [out |-> [files |-> write_text(o.files, dir, name, json_text),
                       dirs |-> mkdir(o.dirs, dir)],
              raised |-> <<>>]

----------------------------------------------------------------------------

NoRoleInfo == RoleInfo("none", None)

\* build_class_map, line 149: the map before any file is entered
EmptyClassMap == [idea |-> <<>>, praxis |-> <<>>, poiesis |-> <<>>]

\* lines 239-240 and 575-580: the message of a run whose -Root is no directory
IncRootBanner == <<"Root folder not found">>

\* lines 238-342: the root test (a RuntimeError ends the run with status 2), layout
\* checks, file collection, ownership and resource maps
IncPrepare ==
    /\ binding = "include" /\ pc = "start"
    /\ IF ~args.root_is_dir
       THEN /\ pc' = "done"
            /\ exit_code' = 2
            /\ banner' = IncRootBanner
            /\ UNCHANGED <<source_files, findings, project_config_names,
                           header_feature_owners, project_resource_header_names, idx>>
       ELSE LET sources == collect_source_files(tree)
            IN  /\ source_files' = sources
                /\ findings' = LayoutFindings(tree, dirs, sources)
                /\ project_config_names' = ProjectConfigNames(tree, dirs)
                /\ header_feature_owners' = HeaderFeatureOwners(sources)
                /\ project_resource_header_names' = ProjectResourceHeaderNames(sources)
                /\ idx' = 1
                /\ pc' = "files"
                /\ UNCHANGED <<banner, exit_code>>
    /\ UNCHANGED <<args, out, gate, stages, gatePassed, console, report, class_map, all_layer_files, binding, file_name, role_info, dirs, tree>>

\* lines 344-544: one iteration of "for file in source_files"
IncCheckFile ==
    /\ binding = "include" /\ pc = "files" /\ idx <= Len(source_files)
    /\ findings' = findings \o FileFindings(source_files[idx], header_feature_owners,
                                            project_config_names, project_resource_header_names)
    /\ idx' = idx + 1
    /\ UNCHANGED <<banner, args, out, gate, stages, gatePassed, console, report, class_map, all_layer_files, binding, pc, file_name, role_info, dirs, tree, source_files,
                   project_config_names, header_feature_owners,
                   project_resource_header_names, exit_code>>

\* line 547: verify_red_flags(source_files, findings)
IncRedFlags ==
    /\ binding = "include" /\ pc = "files" /\ idx > Len(source_files)
    /\ findings' = findings \o verify_red_flags(source_files)
    /\ pc' = "report"
    /\ UNCHANGED <<banner, args, out, gate, stages, gatePassed, console, report, class_map, all_layer_files, binding, file_name, role_info, dirs, tree, source_files, idx,
                   project_config_names, header_feature_owners,
                   project_resource_header_names, exit_code>>

Errors(fs) == SelectSeq(fs, LAMBDA x : x.Severity = "error")
Warnings(fs) == SelectSeq(fs, LAMBDA x : x.Severity = "warning")

\* lines 556-559: the finding lines of the console, errors first, then the advisories
IncConsole(fs) == IncSorted(Errors(fs)) \o IncSorted(Warnings(fs))

\* mutant: any finding fails the run
IncExitCode_any_finding(fs) == IF fs # <<>> THEN 2 ELSE 0

\* line 571: return 2 if errors else 0
IncExitCode(fs) == IF Errors(fs) # <<>> THEN 2 ELSE 0

\* lines 552-553: the headline and the error count, printed by every run
IncBanner(fs) == <<"comsect1 code verification complete", Len(Errors(fs))>>

\* lines 549-571 and the handler under __main__: the console output, the report
\* of -JsonOut and the exit status; an OSError of the report write ends the run with
\* its message and status 2
IncReport ==
    /\ binding = "include" /\ pc = "report"
    /\ console' = IncConsole(findings)
    /\ IF args.json_out = None
       THEN /\ banner' = IncBanner(findings)
            /\ exit_code' = IncExitCode(findings)
            /\ UNCHANGED <<report, out>>
       ELSE LET written == write_json_no_bom(out, args.json_out)
            IN  /\ out' = written.out
                /\ IF written.raised # <<>>
                   THEN /\ banner' = written.raised
                        /\ exit_code' = 2
                        /\ UNCHANGED report
                   ELSE /\ report' = findings
                        /\ banner' = IncBanner(findings)
                        /\ exit_code' = IncExitCode(findings)
    /\ pc' = "done"
    /\ UNCHANGED <<args, gate, stages, gatePassed, class_map, all_layer_files, binding, file_name, role_info, dirs, tree, source_files, idx, findings,
                   project_config_names, header_feature_owners,
                   project_resource_header_names>>

NextInclude == IncPrepare \/ IncCheckFile \/ IncRedFlags \/ IncReport

\* the state before main runs on a tree, an environment followed by one more file,
\* with one of the command lines in one of the working directories
InitIncludeIn(envs, main_dirs, main_names, main_bodies, dirsets, argset, outs) ==
    /\ binding = "include"
    /\ pc = "start"
    /\ file_name = <<>>
    /\ role_info = NoRoleInfo
    /\ dirs \in dirsets
    /\ \E env \in envs, d \in main_dirs, n \in main_names, b \in main_bodies :
          /\ \A i \in 1..Len(env) : ~(env[i].dir = d /\ env[i].name = n)
          /\ tree = env \o <<File(d, n, b)>>
    /\ source_files = <<>>
    /\ idx = 0
    /\ findings = <<>>
    /\ project_config_names = {}
    /\ header_feature_owners = <<>>
    /\ project_resource_header_names = {}
    /\ class_map = EmptyClassMap
    /\ all_layer_files = <<>>
    /\ console = <<>>
    /\ banner = <<>>
    /\ args \in argset /\ out \in outs
    /\ gate = <<>> /\ stages = <<>> /\ gatePassed = TRUE
    /\ report = <<>>
    /\ exit_code = -1

\* the same with report.json of an empty working directory for the report
InitIncludeOn(envs, main_dirs, main_names, main_bodies, dirsets) ==
    InitIncludeIn(envs, main_dirs, main_names, main_bodies, dirsets, {RootGiven}, {EmptyOut})

----------------------------------------------------------------------------
(* The classifier alone *)

InitRole ==
    /\ binding = "role"
    /\ pc = "start"
    /\ file_name \in FileNames
    /\ role_info = NoRoleInfo
    /\ dirs = {}
    /\ tree = <<>>
    /\ source_files = <<>>
    /\ idx = 0
    /\ findings = <<>>
    /\ project_config_names = {}
    /\ header_feature_owners = <<>>
    /\ project_resource_header_names = {}
    /\ class_map = EmptyClassMap
    /\ all_layer_files = <<>>
    /\ console = <<>>
    /\ banner = <<>>
    /\ NoGate
    /\ report = <<>>
    /\ exit_code = -1

Classify ==
    /\ binding = "role" /\ pc = "start"
    /\ role_info' = get_role_info(file_name)
    /\ pc' = "done"
    /\ UNCHANGED <<banner, args, out, gate, stages, gatePassed, console, report, class_map, all_layer_files, binding, file_name, dirs, tree, source_files, idx, findings,
                   project_config_names, header_feature_owners,
                   project_resource_header_names, exit_code>>

SpecRole == InitRole /\ [][Classify]_vars

----------------------------------------------------------------------------
(* Input trees of the include binding *)

w_x == <<"x">>
w_u == <<"u">>
w_misc == <<"m","i","s","c">>
w_zzz == <<"z","z","z">>
w_inc == <<"i","n","c">>

\* one file name per role, and the singleton project headers
RoleNames ==
    { w_ida \o U \o w_core \o ext_c, w_prx \o U \o w_core \o ext_c, w_poi \o U \o w_core \o ext_c,
      w_ida \o U \o w_foo \o ext_c, w_prx \o U \o w_foo \o ext_c, w_poi \o U \o w_foo \o ext_c,
      w_cfg \o U \o w_foo \o ext_h, w_db \o U \o w_foo \o ext_h, w_stm \o U \o w_x \o ext_h,
      w_svc \o U \o w_x \o ext_c, w_mdw \o U \o w_x \o ext_c,
      w_hal \o U \o w_x \o ext_c, w_bsp \o U \o w_x \o ext_c,
      w_inf \o U \o w_x \o ext_c, w_zzz \o ext_c }

SingletonNames == { cfg_core_h, cfg_project_h, db_project_h }

\* the directory chains the location rules name
RequiredDirs ==
    { infra_bootstrap_dir, infra_service_dir, infra_hal_dir, infra_bsp_dir,
      project_features_dir \o <<w_foo>>, project_config_dir, project_datastreams_dir }

RECURSIVE Repeat(_, _)
Repeat(seg, n) == IF n = 0 THEN <<>> ELSE <<seg>> \o Repeat(seg, n - 1)

\* the roots of vendored units: deps/extern/u, deps/middleware/u, deps/extern/u/u, ...
UnitRoots ==
    {d \o Repeat(w_u, n) : d \in {deps_extern_dir, deps_middleware_dir}, n \in 1..MaxNest}

LocationDirs ==
    RequiredDirs
      \cup {u \o r : u \in UnitRoots, r \in RequiredDirs}
      \cup UnitRoots
      \cup { <<>>, <<w_misc>>, deps_middleware_dir, <<w_misc>> \o infra_service_dir,
             <<<<"P","r","o","j","e","c","t">>, w_features, w_foo>> }

\* a tree that passes every layout check
GoodEnv ==
    << File(infra_bootstrap_dir, cfg_core_h, <<>>),
       File(project_config_dir, cfg_project_h, <<>>) >>

GoodDirs == { deps_root_dir }

InitLocation ==
    InitIncludeOn({GoodEnv}, LocationDirs, RoleNames \cup SingletonNames, {<<>>}, {GoodDirs})

SpecLocation == InitLocation /\ [][NextInclude]_vars

\* "#include" followed by the delimited path
IncludeLine(open, path, close) == <<"#">> \o w_include \o <<" ", open>> \o path \o <<close>>

IncludeLeaves ==
    { cfg_core_h, cfg_project_h, db_project_h,
      w_cfg \o U \o w_foo \o ext_h, w_db \o U \o w_foo \o ext_h,
      ida_core_h, w_ida \o U \o w_foo \o ext_h, w_ida \o U \o w_bar \o ext_h,
      w_prx \o U \o w_foo \o ext_h, prx_core_h,
      w_poi \o U \o w_foo \o ext_h, w_poi \o U \o w_bar \o ext_h,
      w_hal \o U \o w_x \o ext_h, w_zzz \o ext_h }

IncludeDirs == { <<>>, w_deps \o <<SEP>>, w_inc \o <<SEP>> }

IncludeLines ==
    {IncludeLine(q[1], d \o leaf, q[2]) :
        q \in { <<"\"", "\"">>, <<"<", ">">> }, d \in IncludeDirs, leaf \in IncludeLeaves}

\* a file body: blank lines, then at most one include directive
IncludeBodies ==
    { <<>> } \cup {Repeat(<<>>, n) \o <<l>> : n \in 0..MaxLead, l \in IncludeLines}

IncludeEnvs ==
    { GoodEnv,
      GoodEnv \o << File(project_config_dir, db_project_h, <<>>),
                    File(project_features_dir \o <<w_foo>>, w_cfg \o U \o w_foo \o ext_h, <<>>) >>,
      GoodEnv \o << File(project_features_dir \o <<w_bar>>, w_cfg \o U \o w_foo \o ext_h, <<>>),
                    File(project_features_dir \o <<w_bar>>, w_poi \o U \o w_foo \o ext_h, <<>>) >>,
      GoodEnv \o << File(<<w_misc>>, w_cfg \o U \o w_foo \o ext_h, <<>>) >>,
      GoodEnv \o << File(deps_extern_dir \o <<w_u>>, w_cfg \o U \o w_foo \o ext_h, <<>>) >>,
      GoodEnv \o << File(deps_extern_dir \o <<w_u>> \o project_config_dir,
                         w_cfg \o U \o w_foo \o ext_h, <<>>) >> }

IncludeMainDirs == { project_features_dir \o <<w_foo>>, project_features_dir \o <<w_bar>> }

InitIncludes ==
    InitIncludeOn(IncludeEnvs, IncludeMainDirs, RoleNames, IncludeBodies, {GoodDirs})

SpecIncludes == InitIncludes /\ [][NextInclude]_vars

----------------------------------------------------------------------------
(* Verify-OOPCode.py: helpers of the identifier binding *)

ida_ == w_ida \o U
prx_ == w_prx \o U
poi_ == w_poi \o U

ext_vb == <<".","v","b">>
ext_cs == <<".","c","s">>

\* ROLE_PREFIXES, in dictionary order
ROLE_PREFIXES ==
    << [prefix |-> ida_, role |-> "idea"],
       [prefix |-> prx_, role |-> "praxis"],
       [prefix |-> poi_, role |-> "poiesis"] >>

SHARED_RESOURCE_PREFIXES ==
    { w_cfg \o U, w_db \o U, w_stm \o U, w_svc \o U, w_mdw \o U, w_hal \o U, w_bsp \o U }

\* -Extensions default ".vb,.cs"
DEFAULT_EXTENSIONS == { ext_vb, ext_cs }

\* get_role: the Python None is the string "None"
get_role(filename) ==
    LET name == Lower(filename)
        hits == {i \in 1..Len(ROLE_PREFIXES) : StartsWith(name, ROLE_PREFIXES[i].prefix)}
    IN  IF hits = {} THEN "None"
        ELSE ROLE_PREFIXES[CHOOSE i \in hits : \A j \in hits : i <= j].role

get_prefix(filename) ==
    LET name == Lower(filename)
        hits == {i \in 1..Len(ROLE_PREFIXES) : StartsWith(name, ROLE_PREFIXES[i].prefix)}
    IN  IF hits = {} THEN None
        ELSE ROLE_PREFIXES[CHOOSE i \in hits : \A j \in hits : i <= j].prefix

\* p < q for two Path values: the comparison of their part lists
RECURSIVE PartsLess(_, _)
PartsLess(p, q) ==
    IF q = <<>> THEN FALSE
    ELSE IF p = <<>> THEN TRUE
    ELSE IF Head(p) # Head(q) THEN StrLess(Head(p), Head(q))
    ELSE PartsLess(Tail(p), Tail(q))

PathLess(f, g) == PartsLess(FilePath(f), FilePath(g))

\* sorted(): x entered into the sorted list q behind every element not above it
RECURSIVE InsertFile(_, _)
InsertFile(x, q) ==
    IF q = <<>> THEN <<x>>
    ELSE IF PathLess(x, Head(q)) THEN <<x>> \o q
    ELSE <<Head(q)>> \o InsertFile(x, Tail(q))

RECURSIVE SortFiles(_)
SortFiles(q) ==
    IF q = <<>> THEN <<>>
    ELSE InsertFile(q[Len(q)], SortFiles(SubSeq(q, 1, Len(q) - 1)))

\* the command line of Verify-OOPCode.py main: the resolved -Root, whether it is a
\* directory, -Extensions and -ReportPath
default_extensions == ext_vb \o <<",">> \o ext_cs

w_w == <<"w">>

\* -Root names the directory w of the root directory of the file system
DefaultOopArgs ==
    [Root |-> <<w_w>>, root_is_dir |-> TRUE, Extensions |-> default_extensions,
     ReportPath |-> <<w_report_json>>]

\* main, lines 494-495: the extension set built from -Extensions; a piece that starts
\* with a dot is stripped, any other piece is stripped and gets a dot in front
ParseExtensions(raw) ==
    LET pieces == SplitComma(raw)
    IN  { IF StartsWith(pieces[k], <<".">>) THEN Strip(pieces[k])
          ELSE <<".">> \o Strip(pieces[k]) : k \in 1..Len(pieces) }

\* a directory among the paths of rglob: every read of it raises an OSError
\* (IsADirectoryError), as for a file that cannot be read; the root itself, which a
\* pattern of ** components yields, is the entry without a name below the root
DirEntry(d) ==
    [dir |-> SubSeq(d, 1, Len(d) - 1), name |-> IF d = <<>> THEN <<>> ELSE d[Len(d)],
     lines |-> <<>>, readable |-> FALSE, utf8 |-> TRUE]

\* the elements of a set, one after the other
RECURSIVE SeqOfSet(_)
SeqOfSet(S) ==
    IF S = {} THEN <<>>
    ELSE LET x == CHOOSE y \in S : TRUE IN <<x>> \o SeqOfSet(S \ {x})

\* fnmatch.translate, the search for the end of a bracket expression: pat[1] is "[";
\* the index of the closing "]", 0 when there is none (the "[" is then literal)
BracketEnd(pat) ==
    LET j1 == IF Len(pat) >= 2 /\ pat[2] = "!" THEN 3 ELSE 2
        j2 == IF Len(pat) >= j1 /\ pat[j1] = "]" THEN j1 + 1 ELSE j1
        ends == {j \in j2..Len(pat) : pat[j] = "]"}
    IN  IF ends = {} THEN 0 ELSE CHOOSE j \in ends : \A k \in ends : j <= k

\* c is in the character set body: x-y is a range when the hyphen is neither the first
\* nor the last character, every other character stands for itself
RECURSIVE InBracketBody(_, _)
InBracketBody(c, body) ==
    IF body = <<>> THEN FALSE
    ELSE IF Len(body) >= 3 /\ body[2] = "-"
    THEN \/ /\ CodePointRank[body[1]] <= CodePointRank[c]
            /\ CodePointRank[c] <= CodePointRank[body[3]]
         \/ InBracketBody(c, SubSeq(body, 4, Len(body)))
    ELSE c = body[1] \/ InBracketBody(c, Tail(body))

\* c matches the bracket expression [stuff]
InBracket(c, stuff) ==
    IF stuff[1] = "!" THEN ~InBracketBody(c, Tail(stuff)) ELSE InBracketBody(c, stuff)

\* re.compile(fnmatch.translate(pat)).fullmatch(name), with regard to case
RECURSIVE fnmatch(_, _)
fnmatch(name, pat) ==
    IF pat = <<>> THEN name = <<>>
    ELSE IF pat[1] = "*"
    THEN \E k \in 0..Len(name) : fnmatch(SubSeq(name, k + 1, Len(name)), Tail(pat))
    ELSE IF name = <<>> THEN FALSE
    ELSE IF pat[1] = "?" THEN fnmatch(Tail(name), Tail(pat))
    ELSE IF pat[1] = "[" /\ BracketEnd(pat) # 0
    THEN /\ InBracket(name[1], SubSeq(pat, 2, BracketEnd(pat) - 1))
         /\ fnmatch(Tail(name), SubSeq(pat, BracketEnd(pat) + 1, Len(pat)))
    ELSE name[1] = pat[1] /\ fnmatch(Tail(name), Tail(pat))

\* pathlib's parse_parts of a glob pattern: empty components and "." are dropped; rglob
\* appends an empty component to a pattern that ends with a slash
PatternParts(pattern) ==
    LET pieces == Split(pattern, "/")
    IN  SelectSeq(pieces, LAMBDA x : x # <<>> /\ x # <<".">>)
          \o (IF pattern # <<>> /\ pattern[Len(pattern)] = "/" THEN << <<>> >> ELSE <<>>)

\* pathlib raises ValueError for a component that holds ** and more
InvalidPattern(pattern) ==
    \E k \in 1..Len(PatternParts(pattern)) :
        /\ PatternParts(pattern)[k] # <<"*","*">>
        /\ Contains(PatternParts(pattern)[k], <<"*","*">>)

\* _is_wildcard_pattern: the component holds *, ? or [
is_wildcard_pattern(pat) == \E k \in 1..Len(pat) : pat[k] \in {"*", "?", "["}

\* the names of the entries of the directory loc
Entries(files, given, loc) ==
    {f.name : f \in {g \in SeqRange(files) : g.dir = loc}}
      \cup {d[Len(d)] : d \in {e \in AllDirs(files, given) :
                                 Len(e) = Len(loc) + 1 /\ SubSeq(e, 1, Len(loc)) = loc}}

\* the directory loc and the directories below it
DirsFrom(files, given, loc) ==
    {loc} \cup {d \in AllDirs(files, given) : Len(d) > Len(loc) /\ SubSeq(d, 1, Len(loc)) = loc}

\* the selectors of pathlib for the components parts, started in the directory loc,
\* which the path walked so far names: the paths they yield, as walked.  files and
\* given are the file system from its root directory on.  ** tries every directory
\* from loc downward (_RecursiveWildcardSelector); a component with *, ? or [ tries
\* the matching entries of loc (_WildcardSelector); any other component is appended
\* and tested for existence (_PreciseSelector), and ".." among them names the parent
\* of loc, which exists for every directory (the root directory is its own parent),
\* so that a walk may leave the directory it started in; components that have a
\* successor pass directories only
RECURSIVE select_from(_, _, _, _, _)
select_from(parts, path, loc, files, given) ==
    IF parts = <<>> \/ Head(parts) = <<>> THEN {path}
    ELSE IF Head(parts) = <<"*","*">>
    THEN UNION { select_from(Tail(parts), path \o SubSeq(d, Len(loc) + 1, Len(d)), d,
                             files, given) : d \in DirsFrom(files, given, loc) }
    ELSE IF is_wildcard_pattern(Head(parts))
    THEN UNION { IF is_dir(files, given, loc \o <<n>>)
                 THEN select_from(Tail(parts), path \o <<n>>, loc \o <<n>>, files, given)
                 ELSE IF Tail(parts) = <<>> THEN {path \o <<n>>} ELSE {} :
                    n \in {m \in Entries(files, given, loc) : fnmatch(m, Head(parts))} }
    ELSE IF Head(parts) = <<".",".">>
    THEN select_from(Tail(parts), path \o <<Head(parts)>>, SubSeq(loc, 1, Len(loc) - 1),
                     files, given)
    ELSE IF is_dir(files, given, loc \o <<Head(parts)>>)
    THEN select_from(Tail(parts), path \o <<Head(parts)>>, loc \o <<Head(parts)>>,
                     files, given)
    ELSE IF is_file(files, loc, Head(parts)) /\ Tail(parts) = <<>>
    THEN {path \o <<Head(parts)>>}
    ELSE {}

\* root.rglob(pattern) for a directory root of the file system files, given: the
\* paths it yields, relative to root
rglob(files, given, root, pattern) ==
    select_from(<< <<"*","*">> >> \o PatternParts(pattern), <<>>, root, files, given)

\* the place in the file system that a path from its root directory with ".."
\* components names, as the operating system resolves it when the path is opened
RECURSIVE normpath(_)
normpath(path) ==
    IF path = <<>> THEN <<>>
    ELSE LET front == normpath(SubSeq(path, 1, Len(path) - 1))
         IN  IF path[Len(path)] = <<".",".">> THEN SubSeq(front, 1, Len(front) - 1)
             ELSE Append(front, path[Len(path)])

\* the entries a path of root.rglob stands for: the file it names, under the path as
\* walked, or the directory it names
PathEntries(files, given, root, path) ==
    LET place == normpath(root \o path)
    IN  IF place = <<>> \/ is_dir(files, given, place) THEN {DirEntry(path)}
        ELSE {[g EXCEPT !.dir = SubSeq(path, 1, Len(path) - 1), !.name = path[Len(path)]] :
                 g \in {f \in SeqRange(files) : f.dir \o <<f.name>> = place}}

\* collect_source_files raises: some rglob("*" + ext) is an invalid pattern
collect_raises(extensions) == \E ext \in extensions : InvalidPattern(<<"*">> \o ext)

\* collect_source_files(root, extensions): sorted(set(rglob("*" + ext) for each ext)),
\* each path relative to root; files and given are the file system from its root
\* directory on.  rglob has no is_file test and yields the directories as well
oop_collect_source_files(files, given, root, extensions) ==
    LET paths == UNION {rglob(files, given, root, <<"*">> \o ext) : ext \in extensions}
    IN  SortFiles(SeqOfSet(UNION {PathEntries(files, given, root, p) : p \in paths}))

\* the file system that holds the tree files, given in the directory root and
\* nothing else: its files and its directories
InWorld(files, root) == [k \in 1..Len(files) |-> [files[k] EXCEPT !.dir = root \o @]]
DirsInWorld(given, root) == {root \o d : d \in given} \cup {root}

extract_class_name(f) == PathStem(f.name)

\* extract_feature_name: "some" is FALSE for the Python None
extract_feature_name(f) ==
    LET stem == Lower(PathStem(f.name))
        hits == {i \in 1..Len(ROLE_PREFIXES) : StartsWith(stem, ROLE_PREFIXES[i].prefix)}
    IN  IF hits = {} THEN [some |-> FALSE, value |-> <<>>]
        ELSE LET prefix == ROLE_PREFIXES[CHOOSE i \in hits : \A j \in hits : i <= j].prefix
             IN  [some |-> TRUE,
                  value |-> SubSeq(PathStem(f.name), Len(prefix) + 1, Len(PathStem(f.name)))]

is_shared_resource(f) ==
    \E prefix \in SHARED_RESOURCE_PREFIXES : StartsWith(Lower(f.name), prefix)

\* build_class_map: role -> list of (class name, file), in the order of files
RECURSIVE build_class_map(_)
build_class_map(files) ==
    IF files = <<>> THEN EmptyClassMap
    ELSE LET rest == build_class_map(SubSeq(files, 1, Len(files) - 1))
             f == files[Len(files)]
             role == get_role(f.name)
             entry == [class |-> extract_class_name(f), file |-> f]
         IN  IF role = "None" THEN rest
             ELSE [rest EXCEPT ![role] = @ \o <<entry>>]

\* the files of one role of the class map
RoleFiles(cmap, role) == [i \in 1..Len(cmap[role]) |-> cmap[role][i].file]

\* OSError text of a failed read
ReadError(f) ==
    Finding("error", PathStr(FilePath(f)), 0, "file-read-error", "OSError", <<>>)
----------------------------------------------------------------------------
(* Stage 1: forbidden imports and calls of ida_ files *)

kw_imports == <<"i","m","p","o","r","t","s">>
kw_using == <<"u","s","i","n","g">>
ns_winforms == <<"s","y","s","t","e","m",".","w","i","n","d","o","w","s",".","f","o","r","m","s">>
ns_drawing == <<"s","y","s","t","e","m",".","d","r","a","w","i","n","g">>
ns_interop == <<"m","i","c","r","o","s","o","f","t",".","o","f","f","i","c","e",".",
                "i","n","t","e","r","o","p">>
ns_ports == <<"s","y","s","t","e","m",".","i","o",".","p","o","r","t","s">>
ns_io == <<"s","y","s","t","e","m",".","i","o">>
w_color == <<"c","o","l","o","r">>
call_messagebox == <<"M","e","s","s","a","g","e","B","o","x",".","S","h","o","w">>
call_invoke == <<"I","n","v","o","k","e">>
call_begininvoke == <<"B","e","g","i","n","I","n","v","o","k","e">>
call_threadsleep == <<"T","h","r","e","a","d",".","S","l","e","e","p">>
call_processstart == <<"P","r","o","c","e","s","s",".","S","t","a","r","t">>

\* ^\s*<keyword>\s+<namespace> on the lowered line (re.IGNORECASE):
\* the index behind the match, 0 when there is none
ImportEnd(s, keyword, namespace) ==
    LET i == SkipSpace(s, 1)
        j == SkipSpace(s, i + Len(keyword))
    IN  IF At(s, i, keyword) /\ j > i + Len(keyword) /\ At(s, j, namespace)
        THEN j + Len(namespace) ELSE 0

\* \b at position p of s, between s[p - 1] and s[p]
IsBoundary(s, p) ==
    (p > 1 /\ p - 1 <= Len(s) /\ IsWordCh(s[p - 1])) # (p >= 1 /\ p <= Len(s) /\ IsWordCh(s[p]))

\* \s*\.\s*Color\b at position e
ColorAhead(s, e) ==
    LET k1 == SkipSpace(s, e)
        k2 == SkipSpace(s, k1 + 1)
    IN  At(s, k1, <<".">>) /\ At(s, k2, w_color) /\ IsBoundary(s, k2 + Len(w_color))

\* \s*; at position e
SemicolonAhead(s, e) == At(s, SkipSpace(s, e), <<";">>)

\* IDA_FORBIDDEN_IMPORTS_VB: the rules whose pattern is found in the line, in order
ImportHitsVB(line) ==
    LET s == Lower(line)
        E(ns) == ImportEnd(s, kw_imports, ns)
    IN  (IF E(ns_winforms) # 0 THEN <<"ida-no-winforms">> ELSE <<>>)
     \o (IF E(ns_drawing) # 0 /\ ~ColorAhead(s, E(ns_drawing))
         THEN <<"ida-no-drawing">> ELSE <<>>)
     \o (IF E(ns_interop) # 0 THEN <<"ida-no-interop">> ELSE <<>>)
     \o (IF E(ns_ports) # 0 THEN <<"ida-no-serialport">> ELSE <<>>)
     \o (IF E(ns_io) # 0 /\ IsBoundary(s, E(ns_io)) THEN <<"ida-no-fileio">> ELSE <<>>)

\* IDA_FORBIDDEN_IMPORTS_CS
ImportHitsCS(line) ==
    LET s == Lower(line)
        E(ns) == ImportEnd(s, kw_using, ns)
    IN  (IF E(ns_winforms) # 0 /\ SemicolonAhead(s, E(ns_winforms))
         THEN <<"ida-no-winforms">> ELSE <<>>)
     \o (IF E(ns_drawing) # 0 /\ SemicolonAhead(s, E(ns_drawing))
         THEN <<"ida-no-drawing">> ELSE <<>>)
     \o (IF E(ns_interop) # 0 THEN <<"ida-no-interop">> ELSE <<>>)
     \o (IF E(ns_ports) # 0 /\ SemicolonAhead(s, E(ns_ports))
         THEN <<"ida-no-serialport">> ELSE <<>>)
     \o (IF E(ns_io) # 0 /\ SemicolonAhead(s, E(ns_io)) THEN <<"ida-no-fileio">> ELSE <<>>)

\* <call>\s*\( at position i
CallAt(line, i, call) == At(line, i, call) /\ At(line, SkipSpace(line, i + Len(call)), <<"(">>)

\* \b<call>\s*\( somewhere in the line
CallFound(line, call) == \E i \in 1..Len(line) : IsBoundary(line, i) /\ CallAt(line, i, call)

\* \.(?:Begin)?Invoke\s*\( somewhere in the line
InvokeFound(line) ==
    \E i \in 1..Len(line) :
        /\ line[i] = "."
        /\ (CallAt(line, i + 1, call_invoke) \/ CallAt(line, i + 1, call_begininvoke))

\* IDA_FORBIDDEN_CALLS
CallHits(line) ==
    (IF CallFound(line, call_messagebox) THEN <<"ida-no-messagebox">> ELSE <<>>)
     \o (IF InvokeFound(line) THEN <<"ida-no-invoke">> ELSE <<>>)
     \o (IF CallFound(line, call_threadsleep) THEN <<"ida-no-threadsleep">> ELSE <<>>)
     \o (IF CallFound(line, call_processstart) THEN <<"ida-no-processstart">> ELSE <<>>)

\* verify_idea_file: the findings of one ida_ file
verify_idea_file(f) ==
    LET file == PathStr(FilePath(f))
        is_vb == Lower(PathSuffix(f.name)) = ext_vb
        Hits(line) == (IF is_vb THEN ImportHitsVB(line) ELSE ImportHitsCS(line)) \o CallHits(line)
        OfLine(n) == [k \in 1..Len(Hits(f.lines[n])) |->
                         Finding("error", file, n, Hits(f.lines[n])[k], "Forbidden in ida_", <<>>)]
    IN  IF ~f.readable THEN <<ReadError(f)>>
        ELSE Join([n \in 1..Len(f.lines) |-> OfLine(n)])

----------------------------------------------------------------------------
(* Stage 2: reverse dependencies *)

\* lines 238-240 and 302-304: the line starts a comment
StartsComment(line) ==
    LET stripped == Strip(line)
    IN  \/ StartsWith(stripped, <<"'">>)
        \/ StartsWith(stripped, <<"/","/">>)
        \/ StartsWith(stripped, <<"/","*">>)

\* re.compile(r"\b" + re.escape(class_name) + r"\b").search(line)
ClassFound(line, class_name) ==
    \E i \in 1..(Len(line) - Len(class_name) + 1) :
        At(line, i, class_name) /\ IsBoundary(line, i) /\ IsBoundary(line, i + Len(class_name))

\* f"{role_prefix}no-{role_label}-ref"
ReverseRuleId(role_prefix, role_label) ==
    CASE role_prefix = prx_ /\ role_label = "idea" -> "prx_no-idea-ref"
      [] role_prefix = prx_ /\ role_label = "praxis" -> "prx_no-praxis-ref"
      [] role_prefix = poi_ /\ role_label = "idea" -> "poi_no-idea-ref"
      [] role_prefix = poi_ /\ role_label = "praxis" -> "poi_no-praxis-ref"

\* lines 208-211: (class name, role label) of every class of the forbidden roles
ForbiddenNames(role, cmap) ==
    LET Of(frole) == [i \in 1..Len(cmap[frole]) |->
                         [class |-> cmap[frole][i].class, label |-> frole]]
    IN  IF role = "praxis" THEN Of("idea") ELSE Of("idea") \o Of("praxis")

\* lines 236-246: the findings of line n of f
ReverseDepsOfLine(f, n, patterns) ==
    LET file == PathStr(FilePath(f))
        line == f.lines[n]
    IN  IF StartsComment(line) THEN <<>>
        ELSE Join([k \in 1..Len(patterns) |->
                 IF ClassFound(line, patterns[k].class)
                 THEN <<Finding("error", file, n,
                                ReverseRuleId(get_prefix(f.name), patterns[k].label),
                                "Reverse dependency", patterns[k].class)>>
                 ELSE <<>>])

\* verify_reverse_dependencies
verify_reverse_dependencies(f, role, cmap) ==
    IF role \notin {"praxis", "poiesis"} THEN <<>>
    ELSE LET forbidden_names == ForbiddenNames(role, cmap)
             own_name == extract_class_name(f)
             forbidden_patterns == SelectSeq(forbidden_names, LAMBDA p : p.class # own_name)
         IN  IF forbidden_names = <<>> THEN <<>>
             ELSE IF ~f.readable THEN <<ReadError(f)>>
             ELSE Join([n \in 1..Len(f.lines) |-> ReverseDepsOfLine(f, n, forbidden_patterns)])

----------------------------------------------------------------------------
(* Stage 3: cross-feature layer references *)

\* mutant: the features compared with case
CrossFeatureNames_case_sensitive(own_feature, layer_files) ==
    Join([i \in 1..Len(layer_files) |->
            LET other_feature == extract_feature_name(layer_files[i])
            IN  IF /\ ~is_shared_resource(layer_files[i])
                   /\ other_feature.some
                   /\ other_feature.value # own_feature
                THEN <<[class |-> extract_class_name(layer_files[i]),
                        feature |-> other_feature.value]>>
                ELSE <<>>])

\* lines 270-285: (class name, feature) of every layer file of another feature
RECURSIVE CrossFeatureNames(_, _)
CrossFeatureNames(own_feature, layer_files) ==
    IF layer_files = <<>> THEN <<>>
    ELSE LET other_file == Head(layer_files)
             other_feature == extract_feature_name(other_file)
             keep == /\ ~is_shared_resource(other_file)
                     /\ other_feature.some
                     /\ Lower(other_feature.value) # Lower(own_feature)
                     /\ get_role(other_file.name) # "None"
         IN  (IF keep THEN <<[class |-> extract_class_name(other_file),
                              feature |-> other_feature.value]>>
              ELSE <<>>) \o CrossFeatureNames(own_feature, Tail(layer_files))

\* lines 301-309: the findings of line n of f
CrossFeatureOfLine(f, n, patterns) ==
    LET file == PathStr(FilePath(f))
        line == f.lines[n]
    IN  IF StartsComment(line) THEN <<>>
        ELSE Join([k \in 1..Len(patterns) |->
                 IF ClassFound(line, patterns[k].class)
                 THEN <<Finding("error", file, n, "cross-feature-layer-ref",
                                "Cross-feature reference", patterns[k].class)>>
                 ELSE <<>>])

\* verify_cross_feature_references
verify_cross_feature_references(f, layer_files) ==
    LET own_feature == extract_feature_name(f)
        cross_feature_names == CrossFeatureNames(own_feature.value, layer_files)
    IN  IF is_shared_resource(f) \/ ~own_feature.some THEN <<>>
        ELSE IF cross_feature_names = <<>> THEN <<>>
        ELSE IF ~f.readable THEN <<ReadError(f)>>
        ELSE Join([n \in 1..Len(f.lines) |-> CrossFeatureOfLine(f, n, cross_feature_names)])
----------------------------------------------------------------------------
(* Stage 4, the ordering of the findings and the run of Verify-OOPCode.py *)

\* count_code_lines of Verify-OOPCode.py: the scan from line n on
RECURSIVE OopCountFrom(_, _, _)
OopCountFrom(lines, n, in_block_comment) ==
    IF n > Len(lines) THEN 0
    ELSE LET stripped == Strip(lines[n])
         IN  IF in_block_comment
             THEN OopCountFrom(lines, n + 1, ~Contains(stripped, <<"*","/">>))
             ELSE IF StartsWith(stripped, <<"/","*">>)
             THEN OopCountFrom(lines, n + 1, TRUE)
             ELSE IF \/ stripped = <<>>
                     \/ StartsWith(stripped, <<"'">>)
                     \/ StartsWith(stripped, <<"/","/">>)
             THEN OopCountFrom(lines, n + 1, FALSE)
             ELSE 1 + OopCountFrom(lines, n + 1, FALSE)

oop_count_code_lines(f) == IF f.readable THEN OopCountFrom(f.lines, 1, FALSE) ELSE 0

\* lines 356-361: Empty Idea
EmptyIdeaFlags(ida_files) ==
    Join([i \in 1..Len(ida_files) |->
            IF oop_count_code_lines(ida_files[i]) < MIN_IDA_LINES
            THEN <<Finding("warning", PathStr(FilePath(ida_files[i])), 0, "red-flag-empty-idea",
                           "Possible Empty Idea", NatStr(oop_count_code_lines(ida_files[i])))>>
            ELSE <<>>])

\* lines 369-377: the lines of f that are no comment and hold a domain conditional
FatLines(f) ==
    {n \in 1..Len(f.lines) :
        /\ ~StartsWith(Strip(f.lines[n]), <<"'">>)
        /\ ~StartsWith(Strip(f.lines[n]), <<"/","/">>)
        /\ DomainConditional(f.lines[n])}

\* mutant: no break after the first warning of a file
FatPoiesisFlags_every_line(poi_files) ==
    Join([i \in 1..Len(poi_files) |->
            IF poi_files[i].readable
            THEN Join([n \in 1..Len(poi_files[i].lines) |->
                    IF n \in FatLines(poi_files[i])
                    THEN <<Finding("warning", PathStr(FilePath(poi_files[i])), n,
                                   "red-flag-fat-poiesis", "Possible Fat Poiesis", <<>>)>>
                    ELSE <<>>])
            ELSE <<>>])

\* lines 364-377: Fat Poiesis, one warning per file at the first such line
FatPoiesisFlags(poi_files) ==
    Join([i \in 1..Len(poi_files) |->
            IF poi_files[i].readable /\ FatLines(poi_files[i]) # {}
            THEN <<Finding("warning", PathStr(FilePath(poi_files[i])),
                           CHOOSE n \in FatLines(poi_files[i]) :
                               \A m \in FatLines(poi_files[i]) : n <= m,
                           "red-flag-fat-poiesis", "Possible Fat Poiesis", <<>>)>>
            ELSE <<>>])

oop_verify_red_flags(ida_files, poi_files) ==
    EmptyIdeaFlags(ida_files) \o FatPoiesisFlags(poi_files)

\* the rule identifiers of Verify-OOPCode.py in increasing str order
OopRuleOrder ==
    << "cross-feature-layer-ref", "file-read-error", "ida-no-drawing", "ida-no-fileio",
       "ida-no-interop", "ida-no-invoke", "ida-no-messagebox", "ida-no-processstart",
       "ida-no-serialport", "ida-no-threadsleep", "ida-no-winforms", "poi_no-idea-ref",
       "poi_no-praxis-ref", "prx_no-idea-ref", "red-flag-empty-idea", "red-flag-fat-poiesis" >>

OopRuleRank == [r \in SeqRange(OopRuleOrder) |->
                   CHOOSE i \in 1..Len(OopRuleOrder) : OopRuleOrder[i] = r]

\* line 423: the sort key (file, line, rule)
KeyLess(a, b) ==
    IF a.File # b.File THEN StrLess(a.File, b.File)
    ELSE IF a.Line # b.Line THEN a.Line < b.Line
    ELSE OopRuleRank[a.Rule] < OopRuleRank[b.Rule]

RECURSIVE InsertFinding(_, _)
InsertFinding(x, q) ==
    IF q = <<>> THEN <<x>>
    ELSE IF KeyLess(x, Head(q)) THEN <<x>> \o q
    ELSE <<Head(q)>> \o InsertFinding(x, Tail(q))

\* findings.sort(key=...): stable
RECURSIVE SortFindings(_)
SortFindings(q) ==
    IF q = <<>> THEN <<>>
    ELSE InsertFinding(q[Len(q)], SortFindings(SubSeq(q, 1, Len(q) - 1)))

SameKey(a, b) == a.File = b.File /\ a.Line = b.Line /\ a.Rule = b.Rule

\* lines 426-433: the first finding of every (file, line, rule)
Deduplicate(q) ==
    LET first == {k \in 1..Len(q) : \A j \in 1..(k - 1) : ~SameKey(q[j], q[k])}
        Nth(i) == CHOOSE k \in first : Cardinality({j \in first : j < k}) = i - 1
    IN  [i \in 1..Cardinality(first) |-> q[Nth(i)]]

\* line 471: return 0 if not errors else 2
OopExitCode(fs) == IF Errors(fs) = <<>> THEN 0 ELSE 2

\* main, lines 490-492: the message of a run whose -Root is no directory
OopRootBanner == <<"[ERROR] Root directory not found">>

\* the last line of the traceback of a run that rglob ended with a ValueError
OopPatternBanner == <<"ValueError: Invalid pattern: '**' can only be an entire path component">>

\* line 400: the message of a scan without ida_/prx_/poi_ files
OopNoFilesBanner == <<"[INFO] No ida_/prx_/poi_ files found">>

\* mutant: the passed headline only for a run without any finding
OopBanner_failed_on_warnings(fs, total_checked) ==
    IF fs = <<>> THEN <<"comsect1 OOP Gate - PASSED", total_checked>>
    ELSE <<"comsect1 OOP Gate - FAILED", Len(Errors(fs)), Len(fs) - Len(Errors(fs))>>

\* lines 438-452: the headline of the console output
OopBanner(fs, total_checked) ==
    IF fs = <<>> THEN <<"comsect1 OOP Gate - PASSED", total_checked>>
    ELSE IF Errors(fs) # <<>>
    THEN <<"comsect1 OOP Gate - FAILED", Len(Errors(fs)), Len(fs) - Len(Errors(fs))>>
    ELSE <<"comsect1 OOP Gate - PASSED (with warnings)", 0, Len(fs)>>

\* lines 404-417: the calls of stages 1 to 3 in the order run makes them
OopTasks(cmap, layer_files) ==
    [i \in 1..Len(cmap.idea) |-> [stage |-> 1, file |-> cmap.idea[i].file]]
      \o [i \in 1..Len(cmap.praxis) |-> [stage |-> 2, file |-> cmap.praxis[i].file]]
      \o [i \in 1..Len(cmap.poiesis) |-> [stage |-> 2, file |-> cmap.poiesis[i].file]]
      \o [i \in 1..Len(layer_files) |-> [stage |-> 3, file |-> layer_files[i]]]

OopUnchanged ==
    UNCHANGED <<binding, file_name, role_info, dirs, tree, project_config_names,
                header_feature_owners, project_resource_header_names,
                args, out, gate, stages, gatePassed>>

\* main, lines 477-501, and run, lines 384-401: the root test, the extension set,
\* collection (an invalid pattern ends the run with a traceback and status 1), class
\* map and the early return of an empty scan
OopCollect ==
    /\ binding = "identifier" /\ pc = "start"
    /\ IF ~args.root_is_dir
       THEN /\ pc' = "done" /\ exit_code' = 1
            /\ banner' = OopRootBanner
            /\ UNCHANGED <<source_files, class_map, all_layer_files>>
       ELSE IF collect_raises(ParseExtensions(args.Extensions))
       THEN /\ pc' = "done" /\ exit_code' = 1
            /\ banner' = OopPatternBanner
            /\ UNCHANGED <<source_files, class_map, all_layer_files>>
       ELSE LET files == oop_collect_source_files(InWorld(tree, args.Root),
                                                   DirsInWorld(dirs, args.Root), args.Root,
                                                   ParseExtensions(args.Extensions))
                cmap == build_class_map(files)
                total_checked == Len(cmap.idea) + Len(cmap.praxis) + Len(cmap.poiesis)
            IN  /\ source_files' = files
                /\ class_map' = cmap
                /\ all_layer_files' = SelectSeq(files, LAMBDA f : get_role(f.name) # "None")
                /\ IF total_checked = 0
                   THEN pc' = "done" /\ exit_code' = 0
                   ELSE pc' = "stages" /\ exit_code' = exit_code
                /\ banner' = IF total_checked = 0 THEN OopNoFilesBanner ELSE banner
    /\ idx' = 1
    /\ findings' = <<>>
    /\ UNCHANGED <<console, report>>
    /\ OopUnchanged

OopTaskReady(stage) ==
    /\ binding = "identifier" /\ pc = "stages"
    /\ idx <= Len(OopTasks(class_map, all_layer_files))
    /\ OopTasks(class_map, all_layer_files)[idx].stage = stage

OopTaskFile == OopTasks(class_map, all_layer_files)[idx].file

\* lines 404-405: one iteration of "for f in ida_files"
OopVerifyIdea ==
    /\ OopTaskReady(1)
    /\ findings' = findings \o verify_idea_file(OopTaskFile)
    /\ idx' = idx + 1
    /\ UNCHANGED <<pc, source_files, class_map, all_layer_files, banner, console, report, exit_code>>
    /\ OopUnchanged

\* lines 408-411: one iteration of the loops over prx_files and poi_files
OopReverseDeps ==
    /\ OopTaskReady(2)
    /\ findings' = findings \o verify_reverse_dependencies(OopTaskFile,
                                   get_role(OopTaskFile.name), class_map)
    /\ idx' = idx + 1
    /\ UNCHANGED <<pc, source_files, class_map, all_layer_files, banner, console, report, exit_code>>
    /\ OopUnchanged

\* lines 414-417: one iteration of "for f in all_layer_files"
OopCrossFeature ==
    /\ OopTaskReady(3)
    /\ findings' = findings \o verify_cross_feature_references(OopTaskFile, all_layer_files)
    /\ idx' = idx + 1
    /\ UNCHANGED <<pc, source_files, class_map, all_layer_files, banner, console, report, exit_code>>
    /\ OopUnchanged

\* line 420: verify_red_flags
OopRedFlags ==
    /\ binding = "identifier" /\ pc = "stages"
    /\ idx > Len(OopTasks(class_map, all_layer_files))
    /\ findings' = findings \o oop_verify_red_flags(RoleFiles(class_map, "idea"),
                                                    RoleFiles(class_map, "poiesis"))
    /\ pc' = "report"
    /\ UNCHANGED <<idx, source_files, class_map, all_layer_files, banner, console, report, exit_code>>
    /\ OopUnchanged

\* the class of the OSError with the given message
OSErrorName(message) ==
    CASE message = "[Errno 17] File exists" -> "FileExistsError"
      [] message = "[Errno 20] Not a directory" -> "NotADirectoryError"
      [] message = "[Errno 21] Is a directory" -> "IsADirectoryError"

\* lines 422-471: sort, deduplication, console output, the report of -ReportPath and
\* the exit status; an OSError of the report write is not caught, and the run ends
\* with its traceback and status 1
OopReport ==
    /\ binding = "identifier" /\ pc = "report"
    /\ findings' = Deduplicate(SortFindings(findings))
    /\ console' = Deduplicate(SortFindings(findings))
    /\ LET fs == Deduplicate(SortFindings(findings))
           headline == OopBanner(fs, Len(class_map.idea) + Len(class_map.praxis)
                                        + Len(class_map.poiesis))
       IN  IF args.ReportPath = None
           THEN /\ banner' = headline
                /\ exit_code' = OopExitCode(fs)
                /\ UNCHANGED <<report, out>>
           ELSE LET written == write_json_no_bom(out, args.ReportPath)
                IN  /\ out' = written.out
                    /\ IF written.raised # <<>>
                       THEN /\ banner' = <<OSErrorName(written.raised[1])>> \o written.raised
                            /\ exit_code' = 1
                            /\ UNCHANGED report
                       ELSE /\ report' = fs
                            /\ banner' = headline
                            /\ exit_code' = OopExitCode(fs)
    /\ pc' = "done"
    /\ UNCHANGED <<idx, source_files, class_map, all_layer_files>>
    /\ UNCHANGED <<binding, file_name, role_info, dirs, tree, project_config_names,
                   header_feature_owners, project_resource_header_names,
                   args, gate, stages, gatePassed>>

NextOop ==
    OopCollect \/ OopVerifyIdea \/ OopReverseDeps \/ OopCrossFeature \/ OopRedFlags \/ OopReport

----------------------------------------------------------------------------
(* Input trees of the identifier binding *)

w_Foo == <<"F","o","o">>
w_lib == <<"l","i","b">>

OopNames ==
    { ida_ \o w_foo \o ext_vb, ida_ \o w_bar \o ext_cs, prx_ \o w_foo \o ext_vb,
      poi_ \o w_foo \o ext_vb, poi_ \o w_bar \o ext_cs,
      <<"P","o","i","_">> \o w_Foo \o ext_cs, w_svc \o U \o w_x \o ext_vb, w_zzz \o ext_vb }

OopLines ==
    { <<"I","m","p","o","r","t","s"," ","S","y","s","t","e","m",".","I","O">>,
      <<"u","s","i","n","g"," ","S","y","s","t","e","m",".","D","r","a","w","i","n","g",";">>,
      <<"I","m","p","o","r","t","s"," ","S","y","s","t","e","m",".","D","r","a","w","i","n","g",
        ".","C","o","l","o","r">>,
      <<"x"," ","="," ","i","d","a","_","f","o","o",".","R","u","n","(",")">>,
      <<"'"," ","i","d","a","_","f","o","o">>,
      <<"/","*"," ","i","d","a","_","f","o","o"," ","*","/">>,
      <<"C","a","l","l"," ","p","r","x","_","f","o","o","(","1",")">>,
      <<"i","d","a","_","f","o","o","_","x"," ","="," ","1">>,
      <<"I","f"," ","m","o","d","e"," ","T","h","e","n">>,
      <<"M","e","s","s","a","g","e","B","o","x",".","S","h","o","w"," ","(","1",")">>,
      <<"y",".","B","e","g","i","n","I","n","v","o","k","e","(","i","d","a","_","b","a","r",")">> }

\* a file body of at most two lines
OopBodies == { <<>> } \cup {<<a>> : a \in OopLines} \cup {<<a, b>> : a \in OopLines, b \in OopLines}

OopEnvs ==
    { <<>>,
      << File(<<w_lib>>, ida_ \o w_foo \o ext_vb, <<>>) >>,
      << File(<<w_lib>>, ida_ \o w_foo \o ext_vb, <<>>),
         File(<<>>, prx_ \o w_foo \o ext_cs, <<>>) >>,
      << File(<<w_lib>>, prx_ \o w_foo \o ext_vb, <<>>),
         File(<<w_lib>>, ida_ \o w_bar \o ext_vb, <<>>),
         File(<<>>, w_zzz \o ext_c, <<>>) >> }

\* the identifier binding run with the default command line on an existing root
OopDefaults ==
    /\ args = DefaultOopArgs /\ out = EmptyOut
    /\ gate = <<>> /\ stages = <<>> /\ gatePassed = TRUE

InitOop ==
    /\ binding = "identifier"
    /\ pc = "start"
    /\ file_name = <<>>
    /\ role_info = NoRoleInfo
    /\ dirs = {}
    /\ \E env \in OopEnvs, d \in { <<>>, <<w_lib>> }, n \in OopNames, b \in OopBodies :
          /\ \A i \in 1..Len(env) : ~(env[i].dir = d /\ env[i].name = n)
          /\ tree = env \o <<File(d, n, b)>>
    /\ source_files = <<>>
    /\ idx = 0
    /\ findings = <<>>
    /\ project_config_names = {}
    /\ header_feature_owners = <<>>
    /\ project_resource_header_names = {}
    /\ class_map = EmptyClassMap
    /\ all_layer_files = <<>>
    /\ console = <<>>
    /\ banner = <<>>
    /\ OopDefaults
    /\ report = <<>>
    /\ exit_code = -1

SpecOop == InitOop /\ [][NextOop]_vars

----------------------------------------------------------------------------
(* Both bindings *)

\* the include binding on trees where a feature folder owns an Idea header
OwnerEnvs ==
    { GoodEnv,
      GoodEnv \o << File(project_features_dir \o <<w_bar>>, w_ida \o U \o w_foo \o ext_h, <<>>) >> }

Init == InitIncludeOn(OwnerEnvs, IncludeMainDirs, RoleNames, IncludeBodies, {GoodDirs}) \/ InitOop

Next == NextInclude \/ NextOop

Spec == Init /\ [][Next]_vars
----------------------------------------------------------------------------
(* Properties.  The input trees end with the file under observation. *)

MainFile == tree[Len(tree)]
MainPath == PathStr(FilePath(MainFile))
MainRole == get_role_info(MainFile.name).role

IncDone == binding = "include" /\ pc = "done"
OopDone == binding = "identifier" /\ pc = "done"

\* the non-system include directives of the observed file
MainIncludes == SelectSeq(get_includes(MainFile), LAMBDA inc : ~IsSystemInclude(inc.Raw))

\* rule identifiers of the dependency rule engine
IncludeRuleIds ==
    { "include.deps_path", "ida_core.include", "ida.include", "poi_core.include",
      "prx_core.include", "prx.include", "poi.include", "resource.include",
      "module.include", "module.resource", "platform.direction", "platform.include" }

\* rule identifiers of the location checks
PathRuleIds ==
    { "path.bootstrap", "path.infra_service", "path.infra_hal", "path.infra_bsp",
      "path.deps_middleware", "path.project_feature", "path.project_config",
      "path.feature_resource", "path.datastream" }

\* the findings the run attributes to one include directive of the observed file
FindingsOf(inc) ==
    SelectSeq(findings, LAMBDA x : x.File = MainPath /\ x.Line = inc.Line
                                   /\ x.Rule \in IncludeRuleIds)

ErrorsOf(inc) == SelectSeq(FindingsOf(inc), LAMBDA x : x.Severity = "error")

RuleCount(inc, rule) == Len(SelectSeq(FindingsOf(inc), LAMBDA x : x.Rule = rule))

HasError(fs) == \E i \in 1..Len(fs) : fs[i].Severity = "error"

HasWarning(fs) == \E i \in 1..Len(fs) : fs[i].Severity = "warning"

\* C2: the classifier returns a role for every file name, and a stem that starts
\* with inf_ is invalid_prefix with no feature whatever follows the prefix
C2_ReservedPrefix ==
    (binding = "role" /\ pc = "done")
        => /\ role_info.role \in Roles
           /\ role_info = get_role_info(file_name)
           /\ StartsWith(PathStem(file_name), w_inf \o U)
                 => role_info = [role |-> "invalid_prefix", feature |-> None]

\* the bare stem inf_ has been classified as invalid_prefix
C2_Witness ==
    /\ binding = "role" /\ pc = "done"
    /\ PathStem(file_name) = w_inf \o U
    /\ role_info.role = "invalid_prefix"

\* the precedence table of C3 for a stem that does not start with inf_
C3Table(stem) ==
    LET TagOf(s) == {t \in {w_ida, w_prx, w_poi, w_cfg, w_db} :
                        StartsWith(s, t \o U) /\ Len(s) > Len(t) + 1}
        Rest(s, t) == SubSeq(s, Len(t) + 2, Len(s))
        First(s, t) == StartsWith(s, t \o U)
    IN  IF stem = w_ida \o U \o w_core THEN [role |-> "core_idea", feature |-> w_core]
        ELSE IF stem = w_prx \o U \o w_core THEN [role |-> "core_praxis", feature |-> w_core]
        ELSE IF stem = w_poi \o U \o w_core THEN [role |-> "core_poiesis", feature |-> w_core]
        ELSE IF w_ida \in TagOf(stem) THEN [role |-> "idea", feature |-> Rest(stem, w_ida)]
        ELSE IF w_prx \in TagOf(stem) THEN [role |-> "praxis", feature |-> Rest(stem, w_prx)]
        ELSE IF w_poi \in TagOf(stem) THEN [role |-> "poiesis", feature |-> Rest(stem, w_poi)]
        ELSE IF w_cfg \in TagOf(stem) THEN [role |-> "feature_cfg", feature |-> Rest(stem, w_cfg)]
        ELSE IF w_db \in TagOf(stem) THEN [role |-> "feature_db", feature |-> Rest(stem, w_db)]
        ELSE IF First(stem, w_svc) THEN [role |-> "service", feature |-> None]
        ELSE IF First(stem, w_mdw) THEN [role |-> "middleware", feature |-> None]
        ELSE IF First(stem, w_hal) THEN [role |-> "hal", feature |-> None]
        ELSE IF First(stem, w_bsp) THEN [role |-> "bsp", feature |-> None]
        ELSE IF First(stem, w_stm) THEN [role |-> "datastream", feature |-> None]
        ELSE [role |-> "unknown", feature |-> None]

\* C3: for a stem not starting with inf_ the classifier returns the first hit of the
\* table: exact Core stems, then <tag>_<rest> with a non-empty rest as the feature,
\* then the five infrastructure prefixes, else unknown
C3_PrecedenceTable ==
    (binding = "role" /\ pc = "done" /\ ~StartsWith(PathStem(file_name), w_inf \o U))
        => role_info = C3Table(PathStem(file_name))

\* the stem ida_core_foo has been classified as idea of the feature core_foo
C3_Witness ==
    /\ binding = "role" /\ pc = "done"
    /\ PathStem(file_name) = w_ida \o U \o w_core \o U \o w_foo
    /\ role_info = [role |-> "idea", feature |-> w_core \o U \o w_foo]

\* the directory chain a role must lie under
RequiredSegment(role) ==
    CASE role \in {"core_idea", "core_praxis", "core_poiesis"} -> infra_bootstrap_dir
      [] role = "service" -> infra_service_dir
      [] role = "hal" -> infra_hal_dir
      [] role = "bsp" -> infra_bsp_dir
      [] role \in {"idea", "praxis", "poiesis"} -> project_features_dir

\* chain occurs as consecutive directories of dir
HasChain(dir, chain) ==
    \E k \in 1..(Len(dir) - Len(chain) + 1) : SubSeq(dir, k, k + Len(chain) - 1) = chain

\* the observed file is a nested-unit file of its role
NestedUnitFile ==
    /\ MainRole \in {"core_idea", "core_praxis", "core_poiesis", "service", "hal", "bsp",
                     "idea", "praxis", "poiesis"}
    /\ Len(MainFile.dir) >= 2
    /\ \/ SubSeq(MainFile.dir, 1, 2) = deps_extern_dir
       \/ SubSeq(MainFile.dir, 1, 2) = deps_middleware_dir
    /\ HasChain(MainFile.dir, RequiredSegment(MainRole))

\* C4: a correctly named file below deps/extern or deps/middleware whose path holds
\* the required directory segment of its role receives no path.* finding
C4_NestedUnitExempt ==
    (IncDone /\ NestedUnitFile)
        => ~\E i \in 1..Len(findings) :
               findings[i].File = MainPath /\ findings[i].Rule \in PathRuleIds

\* C5 as stated: an include of cfg_core.h draws no error finding, whatever the role
\* of the including file and whatever the directory path of the include
C5_CoreContractAnyPath ==
    IncDone => \A i \in 1..Len(MainIncludes) :
                   MainIncludes[i].Leaf = cfg_core_h => ErrorsOf(MainIncludes[i]) = <<>>

\* C5, amended: an include of cfg_core.h draws no error finding of a role rule; the
\* only error it can draw is include.deps_path, and only from a Core or feature
\* layer file whose include path holds a deps segment
C5_CoreContractRoleRules ==
    IncDone => \A i \in 1..Len(MainIncludes) :
                   MainIncludes[i].Leaf = cfg_core_h
                       => LET inc == MainIncludes[i]
                              deps == /\ HasDepsSegment(inc.IncludePath)
                                      /\ MainRole \in {"core_idea", "core_praxis", "core_poiesis",
                                                       "idea", "praxis", "poiesis"}
                          IN  /\ \A k \in 1..Len(ErrorsOf(inc)) :
                                    ErrorsOf(inc)[k].Rule = "include.deps_path"
                              /\ Len(ErrorsOf(inc)) = (IF deps THEN 1 ELSE 0)

\* an Idea file has included cfg_core.h by a path without deps segment, with no error
C5_Witness ==
    /\ IncDone /\ MainRole = "idea"
    /\ \E i \in 1..Len(MainIncludes) :
          /\ MainIncludes[i].Leaf = cfg_core_h
          /\ ~HasDepsSegment(MainIncludes[i].IncludePath)
          /\ ErrorsOf(MainIncludes[i]) = <<>>

\* leaf names a header file directly inside project/config
InProjectConfig(leaf) ==
    \E i \in 1..Len(tree) :
        tree[i].dir = project_config_dir /\ tree[i].name = leaf /\ EndsWith(leaf, ext_h)

\* C6 as stated: an include of a header directly inside project/config draws no error
\* finding in an idea, praxis or poiesis file alike
C6_ProjectSharedAnyFeatureRole ==
    (IncDone /\ MainRole \in {"idea", "praxis", "poiesis"})
        => \A i \in 1..Len(MainIncludes) :
               (/\ InProjectConfig(MainIncludes[i].Leaf)
                /\ \E t \in {w_cfg, w_db} : StartsWith(MainIncludes[i].Leaf, t \o U))
                   => ErrorsOf(MainIncludes[i]) = <<>>

\* C6, amended: in a praxis or poiesis file an include of a cfg_ or db_ header that
\* lies directly inside project/config, by a path without deps segment, draws no error
C6_ProjectSharedPraxisPoiesis ==
    (IncDone /\ MainRole \in {"praxis", "poiesis"})
        => \A i \in 1..Len(MainIncludes) :
               (/\ InProjectConfig(MainIncludes[i].Leaf)
                /\ \E t \in {w_cfg, w_db} : StartsWith(MainIncludes[i].Leaf, t \o U)
                /\ ~HasDepsSegment(MainIncludes[i].IncludePath))
                   => ErrorsOf(MainIncludes[i]) = <<>>

\* a poiesis file has included db_project.h of project/config with no error
C6_Witness ==
    /\ IncDone /\ MainRole = "poiesis"
    /\ \E i \in 1..Len(MainIncludes) :
          /\ MainIncludes[i].Leaf = db_project_h
          /\ InProjectConfig(db_project_h)
          /\ ~HasDepsSegment(MainIncludes[i].IncludePath)
          /\ ErrorsOf(MainIncludes[i]) = <<>>

\* the run holds an error with this rule for line n of the file
ErrorAt(file, n, rule) ==
    \E i \in 1..Len(findings) :
        /\ findings[i].Severity = "error" /\ findings[i].File = file
        /\ findings[i].Line = n /\ findings[i].Rule = rule

\* the class names of the collected files of one layer prefix
ClassNames(prefix) ==
    {PathStem(source_files[i].name) :
        i \in {k \in 1..Len(source_files) : StartsWith(Lower(source_files[k].name), prefix)}}

\* a whole-word occurrence of word in line
WholeWord(line, word) == \E i \in 1..Len(line) : WordAt(line, i, word)

\* every reference of a file with prefix from_ to a class with prefix to_ is reported
UpwardReported(from_, to_, rule) ==
    \A i \in 1..Len(source_files) :
        StartsWith(Lower(source_files[i].name), from_)
            => \A n \in 1..Len(source_files[i].lines), c \in ClassNames(to_) :
                   (/\ ~StartsComment(source_files[i].lines[n])
                    /\ WholeWord(source_files[i].lines[n], c))
                       => ErrorAt(PathStr(FilePath(source_files[i])), n, rule)

\* C7: upward references are always rejected.  Include binding: an ida_ leaf in a
\* praxis file yields prx.include, an ida_ or prx_ leaf in a poiesis file yields
\* poi.include.  Identifier binding: a non-comment line of a prx_ file naming an ida_
\* class, or of a poi_ file naming an ida_ or prx_ class, yields the reverse rule.
C7_UpwardRejected ==
    /\ IncDone => \A i \in 1..Len(MainIncludes) :
          LET inc == MainIncludes[i]
          IN  /\ (MainRole = "praxis" /\ StartsWith(inc.Leaf, w_ida \o U))
                    => ErrorAt(MainPath, inc.Line, "prx.include")
              /\ (MainRole = "poiesis" /\ (\/ StartsWith(inc.Leaf, w_ida \o U)
                                           \/ StartsWith(inc.Leaf, w_prx \o U)))
                    => ErrorAt(MainPath, inc.Line, "poi.include")
    /\ OopDone =>
          /\ UpwardReported(prx_, ida_, "prx_no-idea-ref")
          /\ UpwardReported(poi_, ida_, "poi_no-idea-ref")
          /\ UpwardReported(poi_, prx_, "poi_no-praxis-ref")

\* a poi_ file of the identifier binding names a prx_ class of its own feature on a
\* non-comment line and the run reports it
C7_Witness ==
    /\ OopDone
    /\ StartsWith(Lower(MainFile.name), poi_ \o w_foo)
    /\ \E n \in 1..Len(MainFile.lines) :
          /\ ~StartsComment(MainFile.lines[n])
          /\ WholeWord(MainFile.lines[n], prx_ \o w_foo)
          /\ prx_ \o w_foo \in ClassNames(prx_)
          /\ ErrorAt(MainPath, n, "poi_no-praxis-ref")

\* the observed file is a poiesis file in the folder of feature F whose only include
\* is a quote include of ida_F.h by a path without deps segment
ScenarioA ==
    /\ MainRole = "poiesis"
    /\ Len(MainFile.dir) = 3 /\ SubSeq(MainFile.dir, 1, 2) = project_features_dir
    /\ Len(get_includes(MainFile)) = 1
    /\ Len(MainIncludes) = 1
    /\ MainIncludes[1].Leaf = w_ida \o U \o MainFile.dir[3] \o ext_h
    /\ ~HasDepsSegment(MainIncludes[1].IncludePath)

\* C8: Scenario A ends with exactly one error finding for the poiesis file, of rule
\* poi.include at the line of the include, and no other finding for that include
C8_ScenarioA ==
    (IncDone /\ ScenarioA)
        => LET mine == SelectSeq(findings, LAMBDA x : x.File = MainPath)
           IN  /\ Len(Errors(mine)) = 1
               /\ Errors(mine)[1].Rule = "poi.include"
               /\ Errors(mine)[1].Line = MainIncludes[1].Line
               /\ Len(FindingsOf(MainIncludes[1])) = 1

\* Scenario A has run with the include on the second line of the file
C8_Witness ==
    IncDone /\ ScenarioA /\ MainIncludes[1].Line = 2 /\ ErrorAt(MainPath, 2, "poi.include")

\* C9: in a feature_cfg, feature_db or datastream file every non-system include of an
\* ida_, prx_ or poi_ leaf yields a resource.include error, the Core files and the
\* headers of the same feature included
C9_ResourcesAreLeaves ==
    (IncDone /\ MainRole \in {"feature_cfg", "feature_db", "datastream"})
        => \A i \in 1..Len(MainIncludes) :
               (\E t \in {w_ida, w_prx, w_poi} : StartsWith(MainIncludes[i].Leaf, t \o U))
                   => ErrorAt(MainPath, MainIncludes[i].Line, "resource.include")

\* a feature_cfg file of feature foo has included ida_core.h and ida_foo.h is reported
C9_Witness ==
    /\ IncDone /\ MainFile.name = w_cfg \o U \o w_foo \o ext_h
    /\ \E i \in 1..Len(MainIncludes) :
          /\ MainIncludes[i].Leaf \in {ida_core_h, w_ida \o U \o w_foo \o ext_h}
          /\ ErrorAt(MainPath, MainIncludes[i].Line, "resource.include")

\* leaf is a FeatureConfig-role header name other than the Core contract
IsFeatureCfgLeaf(leaf) ==
    /\ StartsWith(leaf, w_cfg \o U) /\ Len(PathStem(leaf)) > 4
    /\ EndsWith(leaf, ext_h) /\ leaf # cfg_core_h

\* the three project folders of an architecture unit
ProjectFolders == {project_features_dir, project_config_dir, project_datastreams_dir}

\* dir with every name in lower case
LowerDir(dir) == [k \in 1..Len(dir) |-> Lower(dir[k])]

\* a header of this name lies below a project folder of the scanned root
RootResource(leaf) ==
    \E i \in 1..Len(tree) :
        /\ tree[i].name = leaf
        /\ Lower(PathSuffix(leaf)) \in {ext_h, <<".","h","p","p">>}
        /\ Len(tree[i].dir) >= 2 /\ SubSeq(LowerDir(tree[i].dir), 1, 2) \in ProjectFolders

\* a header of this name lies below a project folder of a nested architecture unit:
\* under deps/extern or deps/middleware of the root, with the folder in its path
NestedResource(leaf) ==
    \E i \in 1..Len(tree) :
        /\ tree[i].name = leaf
        /\ Lower(PathSuffix(leaf)) \in {ext_h, <<".","h","p","p">>}
        /\ Len(tree[i].dir) >= 2
        /\ SubSeq(LowerDir(tree[i].dir), 1, 2) \in {deps_extern_dir, deps_middleware_dir}
        /\ \E d \in ProjectFolders : HasChain(LowerDir(tree[i].dir), d)

\* a header of this name is a project resource: it lies below project/features,
\* project/config or project/datastreams of the root or of a nested architecture unit
IsProjectResource(leaf) == RootResource(leaf) \/ NestedResource(leaf)

\* C10 as stated: a service or middleware file that includes a cfg_*.h header other
\* than cfg_core.h receives one module.resource error for that line, whether or not
\* a header of that name exists in the scanned tree
C10_ModuleResourceByName ==
    (IncDone /\ MainRole \in {"service", "middleware"})
        => \A i \in 1..Len(MainIncludes) :
               IsFeatureCfgLeaf(MainIncludes[i].Leaf)
                   => RuleCount(MainIncludes[i], "module.resource") = 1

\* C10, amended: the include receives one module.resource error when a header of that
\* name is a project resource, and none when no header of that name is one (the name is
\* absent from the tree or lies outside every project folder); names that only the
\* project folders of a nested architecture unit hold are not part of the statement
C10_ModuleResourceRegistered ==
    (IncDone /\ MainRole \in {"service", "middleware"})
        => \A i \in 1..Len(MainIncludes) :
               (/\ IsFeatureCfgLeaf(MainIncludes[i].Leaf)
                /\ (RootResource(MainIncludes[i].Leaf) \/ ~NestedResource(MainIncludes[i].Leaf)))
                   => RuleCount(MainIncludes[i], "module.resource")
                          = (IF IsProjectResource(MainIncludes[i].Leaf) THEN 1 ELSE 0)

\* a service file has included cfg_foo.h, which a feature folder holds, and is reported
C10_Witness ==
    /\ IncDone /\ MainRole = "service"
    /\ \E i \in 1..Len(MainIncludes) :
          /\ MainIncludes[i].Leaf = w_cfg \o U \o w_foo \o ext_h
          /\ IsProjectResource(MainIncludes[i].Leaf)
          /\ RuleCount(MainIncludes[i], "module.resource") = 1

\* a middleware file has included cfg_foo.h, which only a vendored library outside
\* every project folder holds, and nothing is reported for the include
ModuleDepsOnlyReached ==
    /\ IncDone /\ MainRole = "middleware"
    /\ \E k \in 1..Len(tree) :
          tree[k].dir = deps_extern_dir \o <<w_u>> /\ tree[k].name = w_cfg \o U \o w_foo \o ext_h
    /\ \E i \in 1..Len(MainIncludes) :
          /\ MainIncludes[i].Leaf = w_cfg \o U \o w_foo \o ext_h
          /\ ~IsProjectResource(MainIncludes[i].Leaf)
          /\ FindingsOf(MainIncludes[i]) = <<>>

\* a service file has included cfg_foo.h, a project resource of a nested architecture
\* unit only: the registry misses the header as the location checks miss the unit
\* (C4), and nothing is reported
ModuleNestedUnitReached ==
    /\ IncDone /\ MainRole = "service"
    /\ \E i \in 1..Len(MainIncludes) :
          /\ MainIncludes[i].Leaf = w_cfg \o U \o w_foo \o ext_h
          /\ NestedResource(MainIncludes[i].Leaf) /\ ~RootResource(MainIncludes[i].Leaf)
          /\ RuleCount(MainIncludes[i], "module.resource") = 0


----------------------------------------------------------------------------
(* Platform files: hal_ and bsp_ sources with one or two include directives *)

PlatformLeaves ==
    { w_hal \o U \o w_x \o ext_h, w_bsp \o U \o w_x \o ext_h,
      w_ida \o U \o w_foo \o ext_h, w_prx \o U \o w_foo \o ext_h, w_poi \o U \o w_foo \o ext_h,
      w_mdw \o U \o w_x \o ext_h, w_svc \o U \o w_x \o ext_h,
      ida_core_h, cfg_core_h, w_cfg \o U \o w_foo \o ext_h, w_stm \o U \o w_x \o ext_h,
      w_zzz \o ext_h }

PlatformLines ==
    {IncludeLine(q[1], d \o leaf, q[2]) :
        q \in { <<"\"", "\"">>, <<"<", ">">> }, d \in IncludeDirs, leaf \in PlatformLeaves}

\* blank lines, then one include directive of any form or two quote includes
PlatformBodies ==
    {Repeat(<<>>, n) \o <<l>> : n \in 0..MaxLead, l \in PlatformLines}
      \cup {<<IncludeLine("\"", a, "\""), IncludeLine("\"", b, "\"")>> :
               a \in PlatformLeaves, b \in PlatformLeaves}

PlatformEnvs ==
    { GoodEnv,
      GoodEnv \o << File(project_features_dir \o <<w_foo>>, w_cfg \o U \o w_foo \o ext_h, <<>>),
                    File(project_datastreams_dir, w_stm \o U \o w_x \o ext_h, <<>>) >> }

InitPlatform ==
    InitIncludeOn(PlatformEnvs, {infra_hal_dir, infra_bsp_dir},
                  {w_hal \o U \o w_x \o ext_c, w_bsp \o U \o w_x \o ext_c},
                  PlatformBodies, {GoodDirs})

SpecPlatform == InitPlatform /\ [][NextInclude]_vars

\* C11: platform direction is one-way.  In a bsp file every non-system include of a
\* hal_ leaf yields a platform.direction error; in a hal file an include of a bsp_
\* leaf yields no finding; in hal and bsp files alike every include of an ida_, prx_,
\* poi_, mdw_ or svc_ leaf yields a platform.include error
C11_PlatformDirection ==
    (IncDone /\ MainRole \in {"hal", "bsp"})
        => \A i \in 1..Len(MainIncludes) :
              LET inc == MainIncludes[i]
              IN  /\ (MainRole = "bsp" /\ StartsWith(inc.Leaf, w_hal \o U))
                        => ErrorAt(MainPath, inc.Line, "platform.direction")
                  /\ (MainRole = "hal" /\ StartsWith(inc.Leaf, w_bsp \o U))
                        => FindingsOf(inc) = <<>>
                  /\ (\E t \in {w_ida, w_prx, w_poi, w_mdw, w_svc} : StartsWith(inc.Leaf, t \o U))
                        => ErrorAt(MainPath, inc.Line, "platform.include")

\* a hal file in infra/platform/hal has included bsp_x.h on its second line, where
\* the run reports nothing, and a bsp file has included hal_x.h and is reported
C11_Witness ==
    /\ IncDone
    /\ \E i \in 1..Len(MainIncludes) :
          LET inc == MainIncludes[i]
          IN  /\ MainRole = "hal" /\ MainFile.dir = infra_hal_dir
              /\ inc.Line = 2 /\ inc.Leaf = w_bsp \o U \o w_x \o ext_h
              /\ FindingsOf(inc) = <<>>
              /\ \E j \in 1..Len(MainIncludes) :
                    /\ MainIncludes[j].Leaf = w_svc \o U \o w_x \o ext_h
                    /\ ErrorAt(MainPath, MainIncludes[j].Line, "platform.include")

----------------------------------------------------------------------------
(* Header ownership: one leaf name held by the folders of up to two features *)

w_baz == <<"b","a","z">>
w_zap == <<"z","a","p">>

OwnedLeaves ==
    { w_ida \o U \o w_foo \o ext_h, w_prx \o U \o w_foo \o ext_h, w_poi \o U \o w_foo \o ext_h,
      w_cfg \o U \o w_foo \o ext_h, w_db \o U \o w_foo \o ext_h, w_poi \o U \o w_zap \o ext_h }

FeatureFolders == {project_features_dir \o <<x>> : x \in {w_foo, w_bar, w_baz}}

\* the leaf in no feature folder, in one, or in two; once in project/config as well
OwnedEnvs ==
    { GoodEnv,
      GoodEnv \o << File(project_config_dir, w_cfg \o U \o w_foo \o ext_h, <<>>),
                    File(project_features_dir \o <<w_foo>>, w_cfg \o U \o w_foo \o ext_h, <<>>),
                    File(project_features_dir \o <<w_bar>>, w_cfg \o U \o w_foo \o ext_h, <<>>) >>,
      GoodEnv \o << File(project_config_dir, w_db \o U \o w_foo \o ext_h, <<>>),
                    File(project_features_dir \o <<w_bar>>, w_db \o U \o w_foo \o ext_h, <<>>) >> }
      \cup {GoodEnv \o <<File(a, l, <<>>)>> : a \in FeatureFolders, l \in OwnedLeaves}
      \cup {GoodEnv \o <<File(p[1], l, <<>>), File(p[2], l, <<>>)>> :
               p \in { <<project_features_dir \o <<w_foo>>, project_features_dir \o <<w_bar>> >>,
                       <<project_features_dir \o <<w_bar>>, project_features_dir \o <<w_baz>> >>,
                       <<project_features_dir \o <<w_baz>>, project_features_dir \o <<w_foo>> >> },
               l \in OwnedLeaves}

OwnedBodies ==
    {Repeat(<<>>, n) \o <<IncludeLine("\"", d \o l, "\"")>> :
        n \in 0..MaxLead, d \in {<<>>}, l \in OwnedLeaves}

InitOwners ==
    InitIncludeOn(OwnedEnvs, FeatureFolders,
                  {w_ida \o U \o w_foo \o ext_c, w_prx \o U \o w_foo \o ext_c,
                   w_poi \o U \o w_foo \o ext_c},
                  OwnedBodies, {GoodDirs})

SpecOwners == InitOwners /\ [][NextInclude]_vars

\* the features whose folder holds a header of this name
OwnerSet(leaf) ==
    {tree[i].dir[3] : i \in {k \in 1..Len(tree) :
        /\ tree[k].name = leaf /\ EndsWith(leaf, ext_h)
        /\ Len(tree[k].dir) >= 3 /\ SubSeq(tree[k].dir, 1, 2) = project_features_dir}}

\* the rule of the role and the leaf tags for which it asks for the feature of the leaf
FeatureRule(role) ==
    CASE role = "idea" -> [rule |-> "ida.include", tags |-> {w_ida, w_prx, w_poi}]
      [] role = "praxis" -> [rule |-> "prx.include", tags |-> {w_prx, w_poi, w_cfg, w_db}]
      [] role = "poiesis" -> [rule |-> "poi.include", tags |-> {w_poi, w_cfg, w_db}]

\* the tag of an include's leaf
LeafTag(leaf) == CHOOSE t \in {w_ida, w_prx, w_poi, w_cfg, w_db} : StartsWith(leaf, t \o U)

\* the include of a praxis or poiesis file names a cfg_ or db_ header that
\* project/config holds too
ProjectShared(role, leaf) ==
    /\ role \in {"praxis", "poiesis"} /\ LeafTag(leaf) \in {w_cfg, w_db}
    /\ InProjectConfig(leaf)

OwnersSharedReached ==
    /\ IncDone /\ MainRole = "praxis" /\ MainFile.dir = project_features_dir \o <<w_baz>>
    /\ \E i \in 1..Len(MainIncludes) :
          /\ MainIncludes[i].Leaf = w_cfg \o U \o w_foo \o ext_h
          /\ OwnerSet(MainIncludes[i].Leaf) = {w_foo, w_bar}
          /\ InProjectConfig(MainIncludes[i].Leaf)
          /\ ErrorsOf(MainIncludes[i]) = <<>>

----------------------------------------------------------------------------
(* Layout: roots given by their directories, with few files or none *)

readme_md == <<"r","e","a","d","m","e",".","m","d">>

LayoutDirs ==
    { infra_bootstrap_dir, deps_root_dir, project_config_dir, project_features_dir,
      core_config_dir, legacy_features_dir, legacy_modules_dir, legacy_platform_dir }

LayoutTrees ==
    { <<>>,
      << File(<<>>, readme_md, <<>>) >>,
      << File(infra_bootstrap_dir, readme_md, <<>>), File(project_config_dir, readme_md, <<>>) >>,
      << File(infra_bootstrap_dir, cfg_core_h, <<>>) >>,
      << File(project_config_dir, cfg_project_h, <<>>) >>,
      GoodEnv,
      GoodEnv \o << File(project_features_dir \o <<w_foo>>, w_ida \o U \o w_foo \o ext_c, <<>>) >> }

\* the state before main runs on one of the given trees
InitIncludeTree(trees, dirsets) ==
    /\ binding = "include"
    /\ pc = "start"
    /\ file_name = <<>>
    /\ role_info = NoRoleInfo
    /\ dirs \in dirsets
    /\ tree \in trees
    /\ source_files = <<>>
    /\ idx = 0
    /\ findings = <<>>
    /\ project_config_names = {}
    /\ header_feature_owners = <<>>
    /\ project_resource_header_names = {}
    /\ class_map = EmptyClassMap
    /\ all_layer_files = <<>>
    /\ console = <<>>
    /\ banner = <<>>
    /\ NoGate
    /\ report = <<>>
    /\ exit_code = -1

InitLayout == InitIncludeTree(LayoutTrees, SUBSET LayoutDirs)

SpecLayout == InitLayout /\ [][NextInclude]_vars

\* the root holds the required directories and no source file
ScenarioB ==
    /\ {infra_bootstrap_dir, deps_root_dir, project_config_dir} \subseteq AllDirs(tree, dirs)
    /\ collect_source_files(tree) = <<>>

LayoutRequired == SelectSeq(findings, LAMBDA x : x.Rule = "layout.required")

\* C13 as stated: Scenario B ends with exactly one layout.required error, the one that
\* reports that no source files were found, and with exit code 2
C13_ScenarioB_OneError ==
    (IncDone /\ ScenarioB)
        => /\ Len(LayoutRequired) = 1
           /\ LayoutRequired[1].Message = "No source files found under"
           /\ exit_code = 2

\* C13, amended: Scenario B ends with exit code 2 and three layout.required errors:
\* the missing Core Contract header, the missing cfg_project.h and, once, the missing
\* source files
C13_ScenarioB ==
    (IncDone /\ ScenarioB)
        => /\ Len(LayoutRequired) = 3
           /\ LayoutRequired[1].Message = "Missing required Core Contract header"
           /\ LayoutRequired[2].Message = "Missing required project target interface header"
           /\ LayoutRequired[3].Message = "No source files found under"
           /\ \A i \in 1..3 : LayoutRequired[i].Severity = "error"
           /\ exit_code = 2

\* a root with the three required directories, no legacy directory and no file at all
\* has been verified
C13_Witness ==
    /\ IncDone /\ ScenarioB /\ tree = <<>>
    /\ dirs = {infra_bootstrap_dir, deps_root_dir, project_config_dir}
    /\ Len(findings) = 3 /\ exit_code = 2

----------------------------------------------------------------------------
(* Red flags: Idea files of both bindings with bodies around the threshold *)

\* the state before run of Verify-OOPCode.py on an environment and one more file
InitOopOn(envs, main_dirs, main_names, main_bodies) ==
    /\ binding = "identifier"
    /\ pc = "start"
    /\ file_name = <<>>
    /\ role_info = NoRoleInfo
    /\ dirs = {}
    /\ \E env \in envs, d \in main_dirs, n \in main_names, b \in main_bodies :
          /\ \A i \in 1..Len(env) : ~(env[i].dir = d /\ env[i].name = n)
          /\ tree = env \o <<File(d, n, b)>>
    /\ source_files = <<>>
    /\ idx = 0
    /\ findings = <<>>
    /\ project_config_names = {}
    /\ header_feature_owners = <<>>
    /\ project_resource_header_names = {}
    /\ class_map = EmptyClassMap
    /\ all_layer_files = <<>>
    /\ console = <<>>
    /\ banner = <<>>
    /\ OopDefaults
    /\ report = <<>>
    /\ exit_code = -1

line_code == <<"x"," ","="," ","1",";">>
line_directive == <<"#","i","f"," ","X">>
line_comment == <<"/","/"," ","c">>
line_star == <<"/","*"," ","c"," ","*","/">>

\* numbers of code lines around MIN_IDA_LINES
FlagCodeCounts == {0, 3, MIN_IDA_LINES - 1, MIN_IDA_LINES}

\* code lines, then directives, then blank and comment lines
FlagBodies ==
    {Repeat(line_code, k) \o Repeat(line_directive, j) \o rest :
        k \in FlagCodeCounts, j \in 0..MaxLead,
        rest \in { <<>>, << <<>>, line_comment >>, <<line_star>> }}

ext_cpp == <<".","c","p","p">>
ext_hpp == <<".","h","p","p">>

FlagNames ==
    {w_ida \o U \o w_foo \o e : e \in {ext_c, ext_h, ext_cpp, ext_hpp, <<".","C">>}}
      \cup { ida_core_h, w_prx \o U \o w_foo \o ext_c }

FlagOopEnvs ==
    { <<>>, << File(<<w_lib>>, prx_ \o w_bar \o ext_vb, <<>>) >> }

InitRedFlags ==
    \/ InitIncludeOn({GoodEnv}, {project_features_dir \o <<w_foo>>, <<w_misc>>},
                     FlagNames, FlagBodies, {GoodDirs})
    \/ InitOopOn(FlagOopEnvs, { <<>>, <<w_lib>> },
                 {ida_ \o w_foo \o ext_vb, ida_ \o w_foo \o ext_cs, poi_ \o w_foo \o ext_vb},
                 FlagBodies)

SpecRedFlags == InitRedFlags /\ [][Next]_vars

\* the lines of a body that are written as code, and those written as directives
PlainCodeLines(f) == Cardinality({n \in 1..Len(f.lines) : f.lines[n] = line_code})
DirectiveLines(f) == Cardinality({n \in 1..Len(f.lines) : f.lines[n] = line_directive})

\* the empty-idea warnings of the run for one file
EmptyIdeaWarnings(f) ==
    Len(SelectSeq(findings, LAMBDA x : /\ x.File = PathStr(FilePath(f))
                                       /\ x.Rule = "red-flag-empty-idea"
                                       /\ x.Severity = "warning"))

\* the scanned files of the Idea role
IdeaFiles ==
    {f \in SeqRange(source_files) :
        IF binding = "include" THEN get_role_info(f.name).role = "idea"
        ELSE get_role(f.name) = "idea"}

\* C14 as stated: every scanned Idea file with fewer than 10 non-blank, non-comment,
\* non-directive lines receives exactly one red-flag-empty-idea warning, in both
\* bindings and for every scanned extension, and a run without error exits with 0
C14_EmptyIdeaEveryExtension ==
    (IncDone \/ OopDone)
        => /\ \A f \in IdeaFiles :
                 PlainCodeLines(f) < MIN_IDA_LINES => EmptyIdeaWarnings(f) = 1
           /\ ~HasError(findings) => exit_code = 0

\* C14, amended: the include binding examines the Idea files of suffix .c only and
\* counts the lines that are neither blank, comment nor directive; the identifier
\* binding examines every ida_ file and counts directive lines as code.  A file whose
\* count is below 10 receives exactly one warning, a file that is not examined none,
\* and a run without error exits with 0
C14_EmptyIdea ==
    /\ IncDone =>
          \A f \in IdeaFiles :
             EmptyIdeaWarnings(f) =
                (IF Lower(PathSuffix(f.name)) = ext_c /\ PlainCodeLines(f) < MIN_IDA_LINES
                 THEN 1 ELSE 0)
    /\ OopDone =>
          \A f \in IdeaFiles :
             /\ EmptyIdeaWarnings(f) <= 1
             /\ PlainCodeLines(f) + DirectiveLines(f) < MIN_IDA_LINES
                   => EmptyIdeaWarnings(f) = 1
    /\ ((IncDone \/ OopDone) /\ ~HasError(findings)) => exit_code = 0

\* Scenario D: an Idea file ida_foo.c with 3 code lines, in its feature folder, has
\* received its warning and the run has ended with exit code 0
C14_Witness ==
    /\ IncDone /\ MainFile.name = w_ida \o U \o w_foo \o ext_c
    /\ PlainCodeLines(MainFile) = 3
    /\ EmptyIdeaWarnings(MainFile) = 1
    /\ ~HasError(findings) /\ exit_code = 0

----------------------------------------------------------------------------
(* Files of unknown role in and outside the managed folders *)

UnknownNames ==
    { w_zzz \o ext_c, w_ida \o U \o ext_c, <<"I","d","a">> \o U \o w_x \o ext_h, w_x \o U \o ext_hpp }

UnknownDirs ==
    LocationDirs
      \cup { project_features_dir, project_features_dir \o <<w_foo, w_inc>>,
             project_config_dir \o <<w_inc>>, <<w_infra>>, <<w_infra, w_platform>>,
             deps_root_dir, deps_extern_dir, <<w_project>>,
             <<w_misc>> \o project_features_dir \o <<w_foo>> }

InitUnknown == InitIncludeOn({GoodEnv}, UnknownDirs, UnknownNames, {<<>>}, {GoodDirs})

SpecUnknown == InitUnknown /\ [][NextInclude]_vars

\* dir is the folder r of the root or lies below it, names compared without case
LiesUnder(dir, r) == Len(dir) >= Len(r) /\ [i \in 1..Len(r) |-> Lower(dir[i])] = r

\* dir lies under one of the four managed folders of the root
UnderManagedRoot(dir) ==
    \E r \in {project_features_dir, project_config_dir, project_datastreams_dir,
              infra_bootstrap_dir} : LiesUnder(dir, r)

\* the findings of the run for the observed file
MainFindings == SelectSeq(findings, LAMBDA x : x.File = MainPath)

\* C15: a file of unknown role receives a naming.prefix error exactly when it lies
\* under project/features, project/config, project/datastreams or infra/bootstrap of
\* the scanned root; anywhere else it produces no finding at all
C15_UnknownFiles ==
    (IncDone /\ MainRole = "unknown")
        => IF UnderManagedRoot(MainFile.dir)
           THEN /\ Len(MainFindings) = 1
                /\ MainFindings[1].Rule = "naming.prefix"
                /\ MainFindings[1].Severity = "error"
           ELSE MainFindings = <<>>

\* a file of unknown role in a nested copy deps/extern/u/project/features/foo has been
\* checked and nothing is reported for it
C15_Witness ==
    /\ IncDone /\ MainRole = "unknown"
    /\ MainFile.dir = deps_extern_dir \o <<w_u>> \o project_features_dir \o <<w_foo>>
    /\ MainFindings = <<>>

\* the scanned files of a feature-scoped role
FeatureRoleFiles ==
    {f \in SeqRange(source_files) :
        get_role_info(f.name).role \in {"idea", "praxis", "poiesis", "feature_cfg", "feature_db"}}

\* the path.* findings of the run for a file
PathFindings(f) ==
    SelectSeq(findings, LAMBDA x : x.File = PathStr(FilePath(f)) /\ x.Rule \in PathRuleIds)

PathRules(f) == {PathFindings(f)[i].Rule : i \in 1..Len(PathFindings(f))}

IsSingleton(f) == Lower(f.name) \in {cfg_project_h, db_project_h}

\* C16 as stated: a file of a feature-scoped role that is not under the features
\* folder receives a path.* error, except cfg_project.h and db_project.h, which
\* receive path.project_config exactly when they are not under project/config
C16_FeatureRolesUnderFeatures ==
    IncDone => \A f \in FeatureRoleFiles :
        IF IsSingleton(f)
        THEN ("path.project_config" \in PathRules(f)) <=> ~LiesUnder(f.dir, project_config_dir)
        ELSE ~LiesUnder(f.dir, project_features_dir) => PathFindings(f) # <<>>

\* f lies below deps/extern or deps/middleware of the root
InDeps(f) == LiesUnder(f.dir, deps_extern_dir) \/ LiesUnder(f.dir, deps_middleware_dir)

\* f lies in folder r of a nested architecture unit: below deps, with r in its path
InNestedUnit(f, r) == InDeps(f) /\ HasChain(LowerDir(f.dir), r)

\* f lies in folder r of the root or of a nested architecture unit
UnderAny(f, r) == LiesUnder(f.dir, r) \/ InNestedUnit(f, r)

\* f lies in a managed folder of a nested architecture unit
NestedManaged(f) ==
    \E r \in {project_features_dir, project_config_dir, infra_bootstrap_dir} : InNestedUnit(f, r)

\* the path rules a file of a feature-scoped role is to receive, a folder of a nested
\* architecture unit standing for the folder of the root
ExpectedPathRules(f) ==
    LET role == get_role_info(f.name).role
        external == /\ InDeps(f)
                    /\ ~HasChain(LowerDir(f.dir), project_features_dir)
                    /\ ~HasChain(LowerDir(f.dir), project_config_dir)
    IN  IF role \in {"idea", "praxis", "poiesis"}
        THEN (IF UnderAny(f, project_features_dir) THEN {} ELSE {"path.project_feature"})
        ELSE IF Lower(f.name) = cfg_core_h
        THEN (IF UnderAny(f, infra_bootstrap_dir) THEN {} ELSE {"path.bootstrap"})
        ELSE IF external THEN {}
        ELSE IF IsSingleton(f)
        THEN (IF UnderAny(f, project_config_dir) THEN {} ELSE {"path.project_config"})
        ELSE (IF UnderAny(f, project_features_dir) \/ UnderAny(f, project_config_dir)
              THEN {} ELSE {"path.feature_resource"})

\* C16, amended: of the files outside the managed folders of nested architecture
\* units, an idea, praxis or poiesis file outside the features folder receives
\* path.project_feature.  A cfg_ or db_ file of an external unit below deps/extern or
\* deps/middleware, one without project/features and project/config in its path,
\* receives no path finding; elsewhere cfg_project.h and db_project.h receive
\* path.project_config exactly when outside project/config, and any other cfg_ or db_
\* file receives path.feature_resource exactly when outside both the features folder
\* and project/config.  cfg_core.h answers to infra/bootstrap alone
C16_FeatureRolePaths ==
    IncDone => \A f \in FeatureRoleFiles :
        ~NestedManaged(f)
            => /\ PathRules(f) = ExpectedPathRules(f)
               /\ Len(PathFindings(f)) = Cardinality(ExpectedPathRules(f))
               /\ \A i \in 1..Len(PathFindings(f)) : PathFindings(f)[i].Severity = "error"

\* a praxis file in project/features of a nested architecture unit has been checked
\* and carries path.project_feature, which the rule for nested units spares it (C4)
PathNestedUnitReached ==
    /\ IncDone /\ MainRole = "praxis"
    /\ InNestedUnit(MainFile, project_features_dir)
    /\ PathRules(MainFile) = {"path.project_feature"}
    /\ ExpectedPathRules(MainFile) = {}

\* db_foo.h of an external unit below deps/extern, outside the features folder, has
\* been checked and has no path finding
PathExternalReached ==
    /\ IncDone /\ MainRole = "feature_db"
    /\ InDeps(MainFile) /\ ~NestedManaged(MainFile)
    /\ PathFindings(MainFile) = <<>>

\* cfg_foo.h in project/config, outside the features folder, has been checked and
\* has no path finding
C16_Witness ==
    /\ IncDone /\ MainFile.name = w_cfg \o U \o w_foo \o ext_h
    /\ MainFile.dir = project_config_dir
    /\ PathFindings(MainFile) = <<>>

----------------------------------------------------------------------------
(* Cross-feature references of the identifier binding *)

Poi_Foo == <<"P","o","i","_">> \o w_Foo

CrossLines ==
    { <<"x"," ","="," ">> \o ida_ \o w_foo \o <<".","R","u","n","(",")">>,
      <<"'"," ">> \o ida_ \o w_foo,
      <<" ","/","/"," ">> \o ida_ \o w_foo,
      <<"/","*"," ">> \o ida_ \o w_foo \o <<" ","*","/">>,
      ida_ \o w_foo \o U \o w_x \o <<" ","="," ","1">>,
      w_svc \o U \o w_x \o <<".","D","o","(">> \o ida_ \o w_bar \o <<")">>,
      <<"y"," ","="," ">> \o w_svc \o U \o w_x,
      Poi_Foo \o <<".","R","u","n","(",")">>,
      <<"a"," ","="," ">> \o prx_ \o w_bar \o <<" ","+"," ">> \o ida_ \o w_foo }

CrossBodies ==
    { <<>> } \cup {<<a>> : a \in CrossLines} \cup {<<a, b>> : a \in CrossLines, b \in CrossLines}

CrossEnvs ==
    { << File(<<w_lib>>, ida_ \o w_foo \o ext_vb, <<>>),
         File(<<w_lib>>, w_svc \o U \o w_x \o ext_vb, <<>>) >>,
      << File(<<w_lib>>, ida_ \o w_bar \o ext_vb, <<>>),
         File(<<w_lib>>, Poi_Foo \o ext_cs, <<>>),
         File(<<>>, w_svc \o U \o w_x \o ext_cs, <<>>) >>,
      << File(<<>>, ida_ \o w_foo \o ext_cs, <<>>),
         File(<<>>, prx_ \o w_bar \o ext_cs, <<>>) >> }

CrossNames ==
    { poi_ \o w_foo \o ext_vb, poi_ \o w_bar \o ext_cs, prx_ \o w_foo \o ext_vb,
      ida_ \o w_bar \o ext_cs, w_svc \o U \o w_foo \o ext_vb, w_cfg \o U \o w_x \o ext_vb }

InitCross == InitOopOn(CrossEnvs, { <<>>, <<w_lib>> }, CrossNames, CrossBodies)

SpecCross == InitCross /\ [][NextOop]_vars

\* name carries one of the three layer prefixes, compared without case
IsLayerName(name) == \E p \in {ida_, prx_, poi_} : StartsWith(Lower(name), p)

\* name carries a shared-resource prefix
IsSharedName(name) ==
    \E p \in {w_cfg, w_db, w_stm, w_svc, w_mdw, w_hal, w_bsp} : StartsWith(Lower(name), p \o U)

\* the feature of a layer file: its stem behind the four characters of the prefix
LayerFeature(name) == Lower(SubSeq(PathStem(name), 5, Len(PathStem(name))))

\* line names, as a whole word, the class of a collected layer file of another feature
NamesForeignClass(f, line) ==
    \E i \in 1..Len(source_files) :
        /\ IsLayerName(source_files[i].name)
        /\ LayerFeature(source_files[i].name) # LayerFeature(f.name)
        /\ WholeWord(line, PathStem(source_files[i].name))

\* C17: in the identifier binding no cross-feature-layer-ref finding names a checked
\* file with a shared-resource prefix, none comes from the class of a shared-resource
\* file or from a line that names classes of the file's own feature only, and every
\* non-comment line of a layer file that names, as a whole word, an ida_/prx_/poi_
\* class of another feature (features compared without case) has such an error
C17_CrossFeature ==
    OopDone =>
        \A i \in 1..Len(source_files) :
            LET f == source_files[i]
                file == PathStr(FilePath(f))
            IN  \A n \in 0..Len(f.lines) :
                   ErrorAt(file, n, "cross-feature-layer-ref")
                      <=> /\ n >= 1
                          /\ IsLayerName(f.name) /\ ~IsSharedName(f.name)
                          /\ ~StartsComment(f.lines[n])
                          /\ NamesForeignClass(f, f.lines[n])

\* a poi_ file of feature foo has named svc_x and ida_bar on one line and Poi_Foo on
\* another: the first line is reported because of ida_bar, the second is not
C17_Witness ==
    /\ OopDone /\ MainFile.name = poi_ \o w_foo \o ext_vb
    /\ Len(MainFile.lines) = 2
    /\ WholeWord(MainFile.lines[1], w_svc \o U \o w_x)
    /\ WholeWord(MainFile.lines[1], ida_ \o w_bar)
    /\ WholeWord(MainFile.lines[2], Poi_Foo)
    /\ ErrorAt(MainPath, 1, "cross-feature-layer-ref")
    /\ ~ErrorAt(MainPath, 2, "cross-feature-layer-ref")
    /\ \E i \in 1..Len(source_files) : source_files[i].name = Poi_Foo \o ext_cs

----------------------------------------------------------------------------
(* Walk orders: the same files handed to a run in every order of the directory walk *)

\* the state before run of Verify-OOPCode.py on one of the given trees
InitOopIn(trees, dirsets, argset, outs) ==
    /\ binding = "identifier"
    /\ pc = "start"
    /\ file_name = <<>>
    /\ role_info = NoRoleInfo
    /\ dirs \in dirsets
    /\ tree \in trees
    /\ source_files = <<>>
    /\ idx = 0
    /\ findings = <<>>
    /\ project_config_names = {}
    /\ header_feature_owners = <<>>
    /\ project_resource_header_names = {}
    /\ class_map = EmptyClassMap
    /\ all_layer_files = <<>>
    /\ console = <<>>
    /\ banner = <<>>
    /\ args \in argset
    /\ out \in outs
    /\ gate = <<>>
    /\ stages = <<>>
    /\ gatePassed = TRUE
    /\ report = <<>>
    /\ exit_code = -1

\* the same in an empty working directory
InitOopWith(trees, dirsets, argset) == InitOopIn(trees, dirsets, argset, {EmptyOut})

\* the same with the default command line on a root without further directories
InitOopTree(trees) == InitOopWith(trees, {{}}, {DefaultOopArgs})

\* every order of the elements of the sequence q
WalkOrders(q) == {[i \in 1..Len(q) |-> q[p[i]]] : p \in Permutations(1..Len(q))}

walk_prx == File(project_features_dir \o <<w_foo>>, w_prx \o U \o w_foo \o ext_c,
                 <<IncludeLine("\"", w_ida \o U \o w_foo \o ext_h, "\"")>>)
walk_svc == File(<<w_misc>>, w_svc \o U \o w_x \o ext_c, <<>>)
walk_ida == File(project_features_dir \o <<w_foo>>, w_ida \o U \o w_foo \o ext_c, <<>>)

WalkTrees ==
    UNION {WalkOrders(t) :
              t \in { GoodEnv \o <<walk_prx, walk_svc>>, GoodEnv \o <<walk_prx, walk_ida>>,
                      GoodEnv \o <<walk_svc, walk_ida>>, <<walk_prx, walk_svc, walk_ida>>,
                      <<walk_ida>>, <<>> }}

walk_oop_ida == File(<<w_lib>>, ida_ \o w_foo \o ext_vb,
                     << <<"I","m","p","o","r","t","s"," ","S","y","s","t","e","m",".","I","O">> >>)
walk_oop_poi == File(<<>>, poi_ \o w_foo \o ext_vb,
                     << <<"I","f"," ","m","o","d","e"," ","T","h","e","n">>,
                        <<"x"," ","="," ">> \o ida_ \o w_foo \o <<".","R","u","n","(",")">> >>)
walk_oop_prx == File(<<w_lib>>, prx_ \o w_bar \o ext_cs,
                     << <<"a"," ","="," ">> \o poi_ \o w_foo \o <<" ","-"," ">> \o ida_ \o w_foo >>)

WalkOopTrees ==
    UNION {WalkOrders(t) :
              t \in { <<walk_oop_ida, walk_oop_poi, walk_oop_prx>>, <<walk_oop_ida, walk_oop_prx>>,
                      <<walk_oop_poi, walk_oop_prx>>, <<walk_oop_ida>> }}

InitWalk == InitIncludeTree(WalkTrees, {GoodDirs, {}}) \/ InitOopTree(WalkOopTrees)

SpecWalk == InitWalk /\ [][Next]_vars

\* the finding list Verify-Comsect1Code.py main builds when the walk returns the files
\* in the order t
IncRun(t, given) ==
    LET sources == collect_source_files(t)
        owners == HeaderFeatureOwners(sources)
        config_names == ProjectConfigNames(t, given)
        resource_names == ProjectResourceHeaderNames(sources)
    IN  LayoutFindings(t, given, sources)
          \o Join([i \in 1..Len(sources) |->
                     FileFindings(sources[i], owners, config_names, resource_names)])
          \o verify_red_flags(sources)

\* the finding list Verify-OOPCode.py run reports when the walk returns the files in
\* the order t, with the directories and the command line of the state
OopRun(t) ==
    LET files == oop_collect_source_files(InWorld(t, args.Root), DirsInWorld(dirs, args.Root),
                                          args.Root, ParseExtensions(args.Extensions))
        cmap == build_class_map(files)
        layer == SelectSeq(files, LAMBDA f : get_role(f.name) # "None")
        tasks == OopTasks(cmap, layer)
        raw == Join([i \in 1..Len(tasks) |->
                       CASE tasks[i].stage = 1 -> verify_idea_file(tasks[i].file)
                         [] tasks[i].stage = 2 ->
                               verify_reverse_dependencies(tasks[i].file,
                                                           get_role(tasks[i].file.name), cmap)
                         [] tasks[i].stage = 3 ->
                               verify_cross_feature_references(tasks[i].file, layer)])
                 \o oop_verify_red_flags(RoleFiles(cmap, "idea"), RoleFiles(cmap, "poiesis"))
    IN  IF tasks = <<>> THEN <<>> ELSE Deduplicate(SortFindings(raw))

\* C18: determinism.  A run reports the same finding list in the same order, on the
\* console and in the structured report, whatever the order in which the directory
\* walk returns the files of the tree, in both bindings
C18_Determinism ==
    /\ IncDone => \A t \in WalkOrders(tree) :
                     /\ IncRun(t, dirs) = report
                     /\ IncConsole(IncRun(t, dirs)) = console
    /\ OopDone => \A t \in WalkOrders(tree) :
                     /\ OopRun(t) = report
                     /\ OopRun(t) = console

\* the part of C18 that concerns the console of the include binding
WalkConsoleStable ==
    IncDone => \A t \in WalkOrders(tree) : IncConsole(IncRun(t, dirs)) = console

\* the part of C18 that concerns the identifier binding
WalkOopStable ==
    OopDone => \A t \in WalkOrders(tree) : OopRun(t) = report /\ OopRun(t) = console

\* the run equals the composition of its steps on the order it was given
WalkRunIsRun ==
    /\ IncDone => IncRun(tree, dirs) = report /\ report = findings
    /\ OopDone => OopRun(tree) = report /\ report = findings

\* no two findings of q share a (file, line, rule) key
UniqueKeys(q) == \A i \in 1..Len(q), j \in 1..Len(q) : i < j => ~SameKey(q[i], q[j])

\* C19: the reported finding list holds no two findings with the same (file, line,
\* rule) key, on the console and in the structured report, in both bindings
C19_NoDuplicateKeys ==
    (IncDone \/ OopDone) => UniqueKeys(report) /\ UniqueKeys(console)

\* the part of C19 that concerns the identifier binding
OopKeysUnique == OopDone => UniqueKeys(report) /\ UniqueKeys(console)

\* q is non-decreasing in the key (file, line, rule) of its binding
NonDecreasing(q) ==
    \A i \in 1..Len(q), j \in 1..Len(q) :
        i < j => IF binding = "include" THEN ~IncKeyLess(q[j], q[i]) ELSE ~KeyLess(q[j], q[i])

\* C20: the findings are emitted in one sequence that is non-decreasing in the key
\* (file, line, rule), errors and warnings together, and the structured report lists
\* them in the order of the console, in both bindings
C20_OneSortedSequence ==
    (IncDone \/ OopDone)
        => /\ NonDecreasing(console)
           /\ NonDecreasing(report)
           /\ report = console

\* the part of C20 that concerns the identifier binding
OopOneSortedSequence ==
    OopDone => NonDecreasing(console) /\ NonDecreasing(report) /\ report = console

----------------------------------------------------------------------------
(* Unreadable files *)

\* a file whose every read raises OSError
Unreadable(f) == [f EXCEPT !.readable = FALSE]

read_ida == File(project_features_dir \o <<w_foo>>, w_ida \o U \o w_foo \o ext_c,
                 <<IncludeLine("\"", w_prx \o U \o w_bar \o ext_h, "\"")>>)
read_prx == File(project_features_dir \o <<w_foo>>, w_prx \o U \o w_foo \o ext_c,
                 <<IncludeLine("\"", w_ida \o U \o w_foo \o ext_h, "\"")>>)
read_poi == File(project_features_dir \o <<w_foo>>, w_poi \o U \o w_foo \o ext_c,
                 <<IncludeLine("\"", w_ida \o U \o w_bar \o ext_h, "\"")>>)

\* a file with a byte that is no UTF-8 behind its last line: a read with
\* errors="replace" gives the lines and one more
Undecodable(f) ==
    [f EXCEPT !.utf8 = FALSE,
              !.lines = f.lines \o << <<"i","f"," ","(","m","o","d","e",")"," ", ReplacementChar>> >>]

\* each file absent, readable or unreadable
ReadChoices(f) == { <<>>, <<f>>, <<Unreadable(f)>> }

\* each file absent, readable, unreadable or undecodable
DecodeChoices(f) == ReadChoices(f) \cup { <<Undecodable(f)>> }

ReadTrees ==
    { GoodEnv \o a \o b \o c :
         a \in DecodeChoices(read_ida), b \in DecodeChoices(read_prx),
         c \in DecodeChoices(read_poi) }

read_oop_ida == File(<<>>, ida_ \o w_foo \o ext_vb, <<w_x>>)
read_oop_prx == File(<<>>, prx_ \o w_foo \o ext_vb, <<ida_ \o w_foo>>)
read_oop_poi == File(<<>>, poi_ \o w_foo \o ext_vb, <<prx_ \o w_foo>>)
read_oop_bar == File(<<>>, poi_ \o w_bar \o ext_vb, <<ida_ \o w_foo>>)

ReadOopTrees ==
    { a \o b \o c \o d :
         a \in DecodeChoices(read_oop_ida), b \in ReadChoices(read_oop_prx),
         c \in ReadChoices(read_oop_poi), d \in ReadChoices(read_oop_bar) }

InitRead == InitIncludeTree(ReadTrees, {GoodDirs}) \/ InitOopTree(ReadOopTrees)

SpecRead == InitRead /\ [][Next]_vars

\* the reads of f for its references fail in the running binding: every read of an
\* unreadable file, and the strict read of the include binding of an undecodable one
ReadFails(f) == ~f.readable \/ (binding = "include" /\ ~f.utf8)

\* the tree with every file whose read fails replaced by a readable empty file
Emptied(t) ==
    [i \in 1..Len(t) |-> IF ~ReadFails(t[i]) THEN t[i]
                         ELSE [t[i] EXCEPT !.readable = TRUE, !.utf8 = TRUE, !.lines = <<>>]]

\* the paths of the files of the tree whose read fails
UnreadablePaths == {PathStr(FilePath(tree[i])) : i \in {j \in 1..Len(tree) : ReadFails(tree[j])}}

\* the findings of q that belong to none of the unreadable files
OthersOf(q) == SelectSeq(q, LAMBDA x : x.File \notin UnreadablePaths)

\* the rule id of a failed read in the running binding
ReadRule == IF binding = "include" THEN "read" ELSE "file-read-error"

\* the run tries to read f: main reads every file of known role (line 440);
\* run reads every ida_ file (line 167) and every poi_ file (line 366), and a prx_
\* file when a forbidden or a cross-feature class exists (lines 212-217, 287-291)
ReadAttempted(f) ==
    IF binding = "include"
    THEN get_role_info(f.name).role \notin {"invalid_prefix", "unknown"}
    ELSE \/ get_role(f.name) \in {"idea", "poiesis"}
         \/ /\ get_role(f.name) = "praxis"
            /\ \/ ForbiddenNames("praxis", class_map) # <<>>
               \/ CrossFeatureNames(extract_feature_name(f).value, all_layer_files) # <<>>

\* the read findings the final list holds for the file at path p
ReadFindings(p) ==
    SelectSeq(report, LAMBDA x : x.File = p /\ x.Rule = ReadRule /\ x.Severity = "error")

\* rule ids that are evaluated on the content of a file
ContentRuleIds ==
    IncludeRuleIds \cup (SeqRange(OopRuleOrder) \ {"file-read-error", "red-flag-empty-idea"})
                   \cup {"red-flag-fat-poiesis"}

\* the run finished all its stages
RunReported == (IncDone \/ OopDone) /\ (binding = "identifier" => all_layer_files # <<>>)

\* C21: isolate-and-continue.  A run with unreadable files finishes; every file whose
\* read failed has exactly one error finding with rule read (include binding) or
\* file-read-error (identifier binding) in the final list and no finding of a
\* dependency rule (of no rule evaluated on content, when no read of the file
\* succeeds), and the findings of the other files equal those of the run on the tree
\* with these files empty
C21_IsolateAndContinue ==
    RunReported
        => /\ \A i \in 1..Len(tree) :
                 (ReadFails(tree[i]) /\ ReadAttempted(tree[i]))
                     => /\ Len(ReadFindings(PathStr(FilePath(tree[i])))) = 1
                        /\ \A k \in 1..Len(report) :
                              report[k].File = PathStr(FilePath(tree[i]))
                                  => report[k].Rule \notin
                                        (IF tree[i].readable THEN IncludeRuleIds
                                         ELSE ContentRuleIds)
           /\ IF binding = "include"
              THEN OthersOf(report) = OthersOf(IncRun(Emptied(tree), dirs))
              ELSE OthersOf(report) = OthersOf(OopRun(Emptied(tree)))

\* the part of C21 that holds in the include binding
IncReadIsolated == binding = "include" => C21_IsolateAndContinue

\* the part of C21 about the other files, in the identifier binding
OopOthersIsolated ==
    (OopDone /\ all_layer_files # <<>>) => OthersOf(report) = OthersOf(OopRun(Emptied(tree)))

\* in the identifier binding an unreadable ida_ or prx_ file whose read failed has its
\* one file-read-error finding
OopReadReported ==
    (OopDone /\ all_layer_files # <<>>)
        => \A i \in 1..Len(tree) :
              (~tree[i].readable /\ ReadAttempted(tree[i]) /\ get_role(tree[i].name) # "poiesis")
                  => Len(ReadFindings(PathStr(FilePath(tree[i])))) = 1

\* the include binding has reported an undecodable poi_ file once with rule read, and
\* its red-flag stage, which reads with errors="replace", has counted the conditional
\* of its text
UndecodableFlaggedReached ==
    /\ IncDone
    /\ \E i \in 1..Len(tree) :
          /\ tree[i].readable /\ ~tree[i].utf8 /\ get_role_info(tree[i].name).role = "poiesis"
          /\ Len(ReadFindings(PathStr(FilePath(tree[i])))) = 1
          /\ \E k \in 1..Len(report) :
                /\ report[k].File = PathStr(FilePath(tree[i]))
                /\ report[k].Rule = "red-flag-fat-poiesis"

\* the identifier binding has read an undecodable ida_ file without a finding of rule
\* file-read-error
UndecodableReadReached ==
    /\ OopDone
    /\ \E i \in 1..Len(tree) :
          /\ tree[i].readable /\ ~tree[i].utf8 /\ get_role(tree[i].name) = "idea"
          /\ ReadFindings(PathStr(FilePath(tree[i]))) = <<>>

----------------------------------------------------------------------------
(* Red flags are advisory *)

fat_if_mode     == <<"i","f"," ","(","m","o","d","e",")">>
fat_case_state  == <<"c","a","s","e"," ","S","T","A","T","E">>
fat_commented   == <<"/","/"," ","i","f"," ","t","y","p","e">>
fat_plain_if    == <<"i","f"," ","(","x",")">>

FatLineChoices == { fat_if_mode, fat_case_state, fat_commented, fat_plain_if }

FatBodies ==
    {<<>>} \cup {<<a>> : a \in FatLineChoices}
           \cup {<<a, b>> : a \in FatLineChoices, b \in FatLineChoices}
           \cup {<<a, b, fat_if_mode>> : a \in FatLineChoices, b \in FatLineChoices}

FatTrees ==
    { GoodEnv \o e \o <<File(project_features_dir \o <<w_foo>>, n, b)>> :
         e \in { <<>>, <<File(project_features_dir \o <<w_foo>>, w_ida \o U \o w_foo \o ext_c, <<>>)>> },
         n \in { w_poi \o U \o w_foo \o ext_c, w_poi \o U \o w_foo \o ext_h },
         b \in FatBodies }

FatOopTrees ==
    { e \o <<File(<<>>, n, b)>> :
         e \in { <<>>, <<File(<<>>, ida_ \o w_foo \o ext_vb, <<>>)>> },
         n \in { poi_ \o w_foo \o ext_vb, poi_ \o w_foo \o ext_cs },
         b \in FatBodies }

InitFat == InitIncludeTree(FatTrees, {GoodDirs}) \/ InitOopTree(FatOopTrees)

SpecFat == InitFat /\ [][Next]_vars

RedFlagRuleIds == { "red-flag-empty-idea", "red-flag-fat-poiesis" }

\* the red-flag-fat-poiesis findings of q for the file at path p
FatFindings(q, p) == SelectSeq(q, LAMBDA x : x.File = p /\ x.Rule = "red-flag-fat-poiesis")

\* the lines of f that hold a conditional followed by a domain keyword
DomainLines(f) == {n \in 1..Len(f.lines) : DomainConditional(f.lines[n])}

\* C22: red flags are advisory.  In both bindings every finding with rule
\* red-flag-empty-idea or red-flag-fat-poiesis has severity warning, and a file has at
\* most one red-flag-fat-poiesis finding however many of its lines hold a conditional
\* followed by a domain keyword
C22_RedFlagsAdvisory ==
    (IncDone \/ OopDone)
        => /\ \A q \in {findings, report, console} : \A k \in 1..Len(q) :
                 q[k].Rule \in RedFlagRuleIds => q[k].Severity = "warning"
           /\ \A i \in 1..Len(tree) : \A q \in {findings, report, console} :
                 Len(FatFindings(q, PathStr(FilePath(tree[i])))) <= 1

\* a poi_ file of the identifier binding with several such lines and its one warning
C22_Witness ==
    /\ OopDone
    /\ Cardinality(DomainLines(MainFile)) >= 2
    /\ Len(FatFindings(report, MainPath)) = 1
    /\ FatFindings(report, MainPath)[1].Severity = "warning"

\* the same in the include binding
FatIncludeReached ==
    /\ IncDone
    /\ Cardinality(DomainLines(MainFile)) >= 2
    /\ Len(FatFindings(report, MainPath)) = 1
    /\ \E k \in 1..Len(report) : report[k].Rule = "red-flag-empty-idea"

----------------------------------------------------------------------------
(* Comment lines and system includes *)

cm_open     == <<"/","*">>
cm_close    == <<"*","/">>
cm_include  == IncludeLine("\"", w_ida \o U \o w_foo \o ext_h, "\"")
cm_system   == IncludeLine("<", w_ida \o U \o w_foo \o ext_h, ">")
cm_slashes  == <<"/","/"," ">> \o cm_include
cm_class    == ida_ \o w_foo
cm_quote    == <<"'"," ">> \o cm_class
cm_call     == call_messagebox \o <<"(",")">>
cm_call_vb  == <<"'"," ">> \o cm_call
cm_call_cs  == <<"/","/"," ">> \o cm_call

CommentIncludeLines == { cm_open, cm_close, cm_include, cm_system, cm_slashes }
CommentClassLines   == { cm_open, cm_close, cm_class, cm_quote, <<"/","/"," ">> \o cm_class }
CommentCallLines    == { cm_open, cm_close, cm_call, cm_call_vb, cm_call_cs }

\* every body of one to three lines of the catalogue
Bodies3(ls) == {<<a>> : a \in ls} \cup {<<a, b>> : a \in ls, b \in ls}
                   \cup {<<a, b, c>> : a \in ls, b \in ls, c \in ls}

CommentTrees ==
    { GoodEnv \o <<File(project_features_dir \o <<w_foo>>, w_prx \o U \o w_foo \o ext_c, b)>> :
         b \in Bodies3(CommentIncludeLines) }

CommentOopTrees ==
    { <<File(<<>>, ida_ \o w_foo \o ext_vb, <<>>), File(<<>>, prx_ \o w_foo \o ext_vb, b)>> :
         b \in Bodies3(CommentClassLines) }
      \cup { <<File(<<>>, ida_ \o w_foo \o ext_vb, <<>>), File(<<>>, poi_ \o w_bar \o ext_cs, b)>> :
                b \in Bodies3(CommentClassLines) }
      \cup { <<File(<<>>, ida_ \o w_foo \o ext_vb, b)>> : b \in Bodies3(CommentCallLines) }

InitComment == InitIncludeTree(CommentTrees, {GoodDirs}) \/ InitOopTree(CommentOopTrees)

SpecComment == InitComment /\ [][Next]_vars

\* the line opens a comment: //, ' or /* after leading white space
IsLineComment(line) ==
    \/ StartsWith(Strip(line), <<"/","/">>)
    \/ StartsWith(Strip(line), <<"'">>)
    \/ StartsWith(Strip(line), cm_open)

\* line n of lines lies inside a block comment that an earlier line opened and no
\* line before n closed
RECURSIVE InsideBlock(_, _)
InsideBlock(lines, n) ==
    IF n <= 1 THEN FALSE
    ELSE LET prev == Strip(lines[n - 1])
         IN  IF InsideBlock(lines, n - 1)
             THEN ~Contains(prev, cm_close)
             ELSE StartsWith(prev, cm_open) /\ ~Contains(SubSeq(prev, 3, Len(prev)), cm_close)

\* line n of f is a comment
IsComment(f, n) == IsLineComment(f.lines[n]) \/ InsideBlock(f.lines, n)

\* line n of f is an angle-bracket include
IsSystemLine(f, n) == IsSystemInclude(f.lines[n])

\* the rules of the dependency and forbidden-reference checks
ReferenceRuleIds ==
    IncludeRuleIds \cup (SeqRange(OopRuleOrder) \ ({"file-read-error"} \cup RedFlagRuleIds))

\* the findings of the reference rules that the final list holds for the observed file
ReferenceFindings ==
    SelectSeq(report, LAMBDA x : x.File = MainPath /\ x.Rule \in ReferenceRuleIds)

\* C23: no finding of a dependency or forbidden-reference rule comes from a comment
\* line (a line comment, or a line inside a multi-line block comment) or from an
\* angle-bracket include, in the include binding and in every check of the identifier
\* binding
C23_CommentsExcluded ==
    (IncDone \/ OopDone)
        => \A k \in 1..Len(ReferenceFindings) :
              LET n == ReferenceFindings[k].Line
              IN  ~IsComment(MainFile, n) /\ ~IsSystemLine(MainFile, n)

\* what the code excludes: angle-bracket includes and line comments in the include
\* binding, and lines that start a comment in the reverse-dependency and
\* cross-feature checks
CommentStartsExcluded ==
    (IncDone \/ OopDone)
        => \A k \in 1..Len(ReferenceFindings) :
              LET n == ReferenceFindings[k].Line
                  stage1 == get_role(MainFile.name) = "idea"
              IN  /\ ~IsSystemLine(MainFile, n)
                  /\ (binding = "include" \/ ~stage1) => ~IsLineComment(MainFile.lines[n])

\* in the include binding every violation of C23 is a line inside a block comment
IncOnlyBlockInterior ==
    IncDone => \A k \in 1..Len(ReferenceFindings) :
                  IsComment(MainFile, ReferenceFindings[k].Line)
                      => InsideBlock(MainFile.lines, ReferenceFindings[k].Line)

----------------------------------------------------------------------------
(* The feature scope of a file *)

ScopeDirs ==
    { project_features_dir \o <<w_foo>>,
      project_features_dir \o <<w_foo, w_inc>>,
      project_features_dir \o <<w_foo>> \o project_features_dir \o <<w_bar>>,
      project_features_dir \o <<w_bar>> \o project_features_dir \o <<w_bar>>,
      <<w_misc>>, <<w_misc, w_features, w_foo>> }

ScopeNames == { w_ida \o U \o w_foo \o ext_c, w_ida \o U \o w_bar \o ext_c }

ScopeBodies ==
    { <<IncludeLine("\"", w_prx \o U \o x \o ext_h, "\"")>> : x \in {w_foo, w_bar, w_baz} }

ScopeTrees ==
    { GoodEnv \o <<File(d, n, b)>> : d \in ScopeDirs, n \in ScopeNames, b \in ScopeBodies }

InitScope == InitIncludeTree(ScopeTrees, {GoodDirs})

SpecScope == InitScope /\ [][NextInclude]_vars

\* the indexes of dir at which a project/features/<name> segment starts
FeatureSegments(dir) ==
    {i \in 1..(Len(dir) - 2) : dir[i] = w_project /\ dir[i + 1] = w_features}

\* the <name> of the project/features/<name> segment nearest to the file
NearestFeature(dir) ==
    dir[(CHOOSE i \in FeatureSegments(dir) : \A j \in FeatureSegments(dir) : j <= i) + 2]

\* the <name> of the outermost project/features/<name> segment
OutermostFeature(dir) ==
    dir[(CHOOSE i \in FeatureSegments(dir) : \A j \in FeatureSegments(dir) : i <= j) + 2]

\* the scope the claim gives the observed file
ClaimedScope ==
    IF FeatureSegments(MainFile.dir) # {} THEN NearestFeature(MainFile.dir)
    ELSE get_role_info(MainFile.name).feature

\* the scope with the outermost segment in place of the nearest
OutermostScope ==
    IF FeatureSegments(MainFile.dir) # {} THEN OutermostFeature(MainFile.dir)
    ELSE get_role_info(MainFile.name).feature

\* the include of a prx_ header by the observed idea file is accepted exactly when
\* the header belongs to the feature scope
ScopeIs(scope) ==
    \A k \in 1..Len(MainIncludes) :
        (FindingsOf(MainIncludes[k]) = <<>>)
            <=> test_is_same_feature_header(MainIncludes[k].Leaf, w_prx, scope)

\* C24: the feature scope of a file's dependency checks is the <name> of the nearest
\* ancestor project/features/<name> segment of its path when the path has one,
\* whatever the file name says, and the feature of the file name otherwise
C24_PathFeatureOverrides == IncDone => ScopeIs(ClaimedScope)

\* the scope the code uses: the outermost segment
ScopeIsOutermost == IncDone => ScopeIs(OutermostScope)

\* the claim holds for the files whose path has at most one such segment
ScopeSingleSegment ==
    (IncDone /\ Cardinality(FeatureSegments(MainFile.dir)) <= 1) => ScopeIs(ClaimedScope)

----------------------------------------------------------------------------
(* Runs without a file to check *)

EmptyTrees ==
    { a \o b \o c :
         a \in { <<>>, GoodEnv },
         b \in { <<>>, <<File(<<>>, readme_md, <<>>)>> },
         c \in { <<>>, <<File(infra_service_dir, w_svc \o U \o w_x \o ext_c, <<>>)>>,
                 <<File(<<w_misc>>, w_svc \o U \o w_x \o ext_c, <<>>)>> } }

EmptyOopTrees ==
    { a \o b \o c :
         a \in { <<>>, <<File(<<>>, w_svc \o U \o w_x \o ext_vb, <<>>)>>,
                 <<File(<<>>, readme_md, <<>>)>> },
         b \in { <<>>, <<File(<<>>, ida_ \o w_foo \o ext_vb, <<>>)>>,
                 <<File(<<>>, ida_ \o w_foo \o ext_vb, Repeat(line_code, MIN_IDA_LINES))>> },
         c \in { <<>>, <<File(<<>>, prx_ \o w_foo \o ext_vb, <<ida_ \o w_foo>>)>>,
                 <<File(<<>>, prx_ \o w_foo \o ext_vb, <<line_code>>)>> } }

w_dir == <<"d","i","r">>

\* directories of the root: none, and directories named like a source file
EmptyOopDirs ==
    { {}, {<<w_lib>>, <<w_lib, prx_ \o w_dir \o ext_cs>>}, {<<ida_ \o w_dir \o ext_vb>>} }

\* command lines: the default, a -Root that is no directory, and -Extensions vb,
\* ".vb, .cs", md, the glob patterns .* and .[vc]? and the invalid pattern .**
EmptyOopArgs ==
    { DefaultOopArgs,
      [DefaultOopArgs EXCEPT !.root_is_dir = FALSE],
      [DefaultOopArgs EXCEPT !.Extensions = <<"v","b">>],
      [DefaultOopArgs EXCEPT !.Extensions = ext_vb \o <<","," ">> \o ext_cs],
      [DefaultOopArgs EXCEPT !.Extensions = <<"m","d">>],
      [DefaultOopArgs EXCEPT !.Extensions = <<".","*">>],
      [DefaultOopArgs EXCEPT !.Extensions = <<".","[","v","c","]","?">>],
      [DefaultOopArgs EXCEPT !.Extensions = <<".","*","*">>] }

\* -Extensions .vb/../*.vb: the entries named *.vb next to a directory named *.vb
ParentPatternArgs ==
    [DefaultOopArgs EXCEPT !.Extensions = ext_vb \o <<"/",".",".","/","*">> \o ext_vb]

\* -Extensions .vb/../../w/*.vb: from a directory named *.vb up to the directory that
\* holds the root, and down again into the root w
ClimbPatternArgs ==
    [DefaultOopArgs EXCEPT !.Extensions = ext_vb \o <<"/",".",".","/",".",".","/">> \o w_w \o <<"/","*">> \o ext_vb]

InitEmpty ==
    \/ InitIncludeTree(EmptyTrees, {GoodDirs \cup {infra_bootstrap_dir, project_config_dir}, {}})
    \/ InitOopWith(EmptyOopTrees, EmptyOopDirs, {DefaultOopArgs})
    \/ InitOopWith(EmptyOopTrees, {{}}, EmptyOopArgs)
    \/ InitOopWith(EmptyOopTrees, {{<<ida_ \o w_dir \o ext_vb>>}},
                   {ParentPatternArgs, ClimbPatternArgs})

SpecEmpty == InitEmpty /\ [][Next]_vars

\* the number of files the run checks
FilesChecked ==
    IF binding = "include" THEN Len(source_files)
    ELSE Len(class_map.idea) + Len(class_map.praxis) + Len(class_map.poiesis)

\* the findings that say that nothing was found to check
EmptinessFindings ==
    SelectSeq(findings, LAMBDA x : x.Message = "No source files found under")

\* the run printed that it found no file
NoFilesIndication ==
    \/ banner = OopNoFilesBanner
    \/ \E k \in 1..Len(console) : console[k].Message = "No source files found under"

\* the run printed that the check passed
PassedIndication ==
    /\ banner # <<>>
    /\ banner[1] \in {"comsect1 OOP Gate - PASSED", "comsect1 OOP Gate - PASSED (with warnings)"}

\* C25: in both bindings a run that finds no file to check is a no-op, neither a pass
\* nor a failure: it has no finding about the emptiness and prints a no-files
\* indication and no passed indication; a run with at least one checked file and no
\* error prints a passed indication
C25_ZeroFilesNoOp ==
    (IncDone \/ OopDone)
        => /\ FilesChecked = 0
                => /\ EmptinessFindings = <<>>
                   /\ exit_code = 0
                   /\ NoFilesIndication
                   /\ ~PassedIndication
           /\ (FilesChecked > 0 /\ ~HasError(findings)) => PassedIndication

\* the identifier binding scanned the root: -Root is a directory and no extension is
\* an invalid glob pattern
OopScanned ==
    OopDone /\ args.root_is_dir /\ ~collect_raises(ParseExtensions(args.Extensions))

\* C25, amended: the identifier binding reports a scan of an existing root without
\* ida_/prx_/poi_ entries as a no-op (no finding, exit 0, the no-files message, no passed headline) and prints a
\* passed headline for every run with a checked file and no error; the include binding
\* reports a run without source files as a failure with one layout.required error
\* "No source files found" and exit 2, and prints for every run the same headline
\* with the error count and never a passed headline
C25_NoOpInIdentifierBinding ==
    /\ OopScanned
          => /\ FilesChecked = 0
                  => /\ findings = <<>> /\ console = <<>>
                     /\ exit_code = 0
                     /\ banner = OopNoFilesBanner
                     /\ ~PassedIndication
             /\ (FilesChecked > 0 /\ ~HasError(findings)) => PassedIndication /\ exit_code = 0
             /\ (FilesChecked > 0 /\ HasError(findings)) => ~PassedIndication
    /\ IncDone
          => /\ FilesChecked = 0 => Len(EmptinessFindings) = 1 /\ exit_code = 2
             /\ FilesChecked > 0 => EmptinessFindings = <<>>
             /\ ~PassedIndication
             /\ banner = <<"comsect1 code verification complete", Len(Errors(findings))>>

\* a run of the identifier binding on a root that holds files but none to check
C25_Witness ==
    /\ OopScanned /\ tree # <<>> /\ FilesChecked = 0
    /\ banner = OopNoFilesBanner /\ exit_code = 0

\* runs the amended statement distinguishes: a warning-only pass of the identifier
\* binding and a run of the include binding without source files
EmptyCasesReached ==
    \/ OopDone /\ FilesChecked > 0 /\ HasWarning(findings) /\ PassedIndication
    \/ IncDone /\ FilesChecked = 0 /\ tree # <<>> /\ exit_code = 2

\* a root that holds nothing but a directory named like a praxis file: the directory is
\* collected and counted, and the run prints the passed headline
EmptyDirCountedReached ==
    /\ OopDone /\ tree = <<>> /\ dirs # {} /\ FilesChecked = 1
    /\ banner = <<"comsect1 OOP Gate - PASSED", 1>> /\ exit_code = 0

\* a directory named like an idea file has a read error and an empty-idea warning
EmptyDirIdeaReached ==
    /\ OopDone /\ tree = <<>> /\ dirs # {}
    /\ Len(report) = 2 /\ report[1].Rule = "file-read-error" /\ exit_code = 2

\* a run whose -Root is no directory ends with status 1 before it scans
OopRootMissing ==
    (OopDone /\ ~args.root_is_dir)
        => exit_code = 1 /\ banner = OopRootBanner /\ findings = <<>> /\ report = <<>>

\* a run with the extension .* collects every name with a dot and checks the idea file
\* among them
EmptyGlobReached ==
    /\ OopScanned /\ args.Extensions = <<".","*">>
    /\ Len(source_files) > FilesChecked /\ FilesChecked > 0

\* a run with the extension .vb/../*.vb collects an idea file under the path that leads
\* through the directory ida_dir.vb and back, and checks it
EmptyParentReached ==
    /\ OopScanned /\ args = ParentPatternArgs /\ FilesChecked > 0
    /\ \E i \in 1..Len(source_files) :
          /\ source_files[i].dir = <<ida_ \o w_dir \o ext_vb, <<".",".">>>>
          /\ source_files[i].name = ida_ \o w_foo \o ext_vb
          /\ source_files[i].readable

\* a run with the extension .vb/../../w/*.vb collects an idea file under a path that
\* leaves the root and enters it again, and checks it
EmptyClimbReached ==
    /\ OopScanned /\ args = ClimbPatternArgs /\ FilesChecked > 0
    /\ \E i \in 1..Len(source_files) :
          /\ source_files[i].dir = <<ida_ \o w_dir \o ext_vb, <<".",".">>, <<".",".">>, w_w>>
          /\ source_files[i].name = ida_ \o w_foo \o ext_vb
          /\ source_files[i].readable

\* a run with the extension .** ends with the traceback of a ValueError and status 1
EmptyPatternReached ==
    OopDone /\ args.root_is_dir /\ ~OopScanned /\ exit_code = 1 /\ banner = OopPatternBanner

----------------------------------------------------------------------------
(* The includes of an idea file *)

IdeaLeaves ==
    { t \o U \o x \o ext_h : t \in {w_ida, w_prx, w_poi}, x \in {w_foo, w_bar, w_foo \o U \o w_x, w_foo \o w_x} }
      \cup { w_prx \o U \o <<"F","O","O">> \o ext_h, cfg_core_h, cfg_project_h,
             w_cfg \o U \o w_foo \o ext_h }
      \cup { t \o U \o w_foo \o ext_h : t \in {w_db, w_stm, w_mdw, w_svc, w_hal, w_bsp} }
      \cup { w_x \o ext_h }

IdeaEnvs ==
    { GoodEnv,
      GoodEnv \o << File(project_features_dir \o <<w_bar>>, w_prx \o U \o w_foo \o ext_h, <<>>) >>,
      GoodEnv \o << File(project_features_dir \o <<w_foo>>, w_prx \o U \o w_bar \o ext_h, <<>>) >>,
      GoodEnv \o << File(project_features_dir \o <<w_foo>>, w_poi \o U \o w_foo \o ext_h, <<>>),
                    File(project_features_dir \o <<w_bar>>, w_poi \o U \o w_foo \o ext_h, <<>>) >>,
      GoodEnv \o << File(project_features_dir \o <<w_foo>>, w_db \o U \o w_foo \o ext_h, <<>>),
                    File(project_features_dir \o <<w_foo>>, w_cfg \o U \o w_foo \o ext_h, <<>>) >> }

IdeaTrees ==
    { e \o <<File(d, n, <<IncludeLine("\"", p \o l, "\"")>>)>> :
         e \in IdeaEnvs,
         d \in { project_features_dir \o <<w_foo>>, project_features_dir \o <<w_bar>>, <<w_misc>> },
         n \in { w_ida \o U \o w_foo \o ext_c, w_ida \o U \o w_Foo \o ext_c },
         p \in { <<>>, w_inc \o <<"/">> },
         l \in IdeaLeaves }

InitIdea == InitIncludeTree(IdeaTrees, {GoodDirs})

SpecIdea == InitIdea /\ [][NextInclude]_vars

\* the header is same-feature for the observed file: by the ownership map when it holds
\* the leaf, by the stem of the leaf otherwise
SameFeatureHeader(leaf, prefix) ==
    LET feature == OutermostScope
        stem == Lower(PathStem(leaf))
        base == Lower(prefix \o U \o feature)
    IN  IF OwnerSet(leaf) # {} THEN feature \in OwnerSet(leaf)
        ELSE stem = base \/ StartsWith(stem, base \o U)

\* C26: in the include binding the include of an ida_, prx_ or poi_ leaf by an idea file
\* yields an ida.include error exactly when the header is not same-feature; every
\* include of a cfg_ leaf other than cfg_core.h and every include of a db_, stm_, mdw_,
\* svc_, hal_ or bsp_ leaf yields an ida.include error, the file's own feature included
C26_IdeaIncludes ==
    (IncDone /\ MainRole = "idea")
        => \A k \in 1..Len(MainIncludes) :
              LET inc == MainIncludes[k]
                  leaf == inc.Leaf
                  flagged == ErrorAt(MainPath, inc.Line, "ida.include")
              IN  /\ \A t \in {w_ida, w_prx, w_poi} :
                        StartsWith(leaf, t \o U) => (flagged <=> ~SameFeatureHeader(leaf, t))
                  /\ (StartsWith(leaf, w_cfg \o U) /\ leaf # cfg_core_h) => flagged
                  /\ (\E t \in {w_db, w_stm, w_mdw, w_svc, w_hal, w_bsp} : StartsWith(leaf, t \o U))
                        => flagged

\* an idea file of feature foo has included prx_bar.h, which the folder of foo holds,
\* without an error, and another one its own feature's db_foo.h with an error
C26_Witness ==
    /\ IncDone /\ MainRole = "idea" /\ Len(MainIncludes) = 1
    /\ MainIncludes[1].Leaf = w_prx \o U \o w_bar \o ext_h
    /\ OutermostScope = w_foo
    /\ OutermostScope \in OwnerSet(MainIncludes[1].Leaf)
    /\ ~ErrorAt(MainPath, 1, "ida.include")

\* an idea file has included the db_ header of its own feature and received the error
IdeaOwnResourceReached ==
    /\ IncDone /\ MainRole = "idea" /\ Len(MainIncludes) = 1
    /\ MainIncludes[1].Leaf = w_db \o U \o w_foo \o ext_h
    /\ OwnerSet(MainIncludes[1].Leaf) = {OutermostScope}
    /\ ErrorAt(MainPath, 1, "ida.include")

----------------------------------------------------------------------------
(* Counting code lines *)

cnt_blank    == <<" ">>
cnt_comment  == <<"/","/"," ","c">>
cnt_one_line == <<"/","*"," ","c"," ","*","/">>
cnt_open     == <<"/","*"," ","c">>
cnt_interior == <<"c"," ","c">>
cnt_close    == <<"c"," ","*","/">>

\* the seven kinds of line: blank, code, line comment, block comment on one line,
\* opening line, interior line, closing line
CountLines ==
    { cnt_blank, line_code, cnt_comment, cnt_one_line, cnt_open, cnt_interior, cnt_close }

CountBodies == {<<>>} \cup Bodies3(CountLines)

CountTrees ==
    { GoodEnv \o <<File(project_features_dir \o <<w_foo>>, w_ida \o U \o w_foo \o ext_c, b)>> :
         b \in CountBodies }

\* the counted idea file, after an empty poiesis file of its feature
CountOopTrees ==
    { <<File(<<>>, poi_ \o w_foo \o ext_cs, <<>>), File(<<>>, ida_ \o w_foo \o ext_cs, b)>> :
         b \in CountBodies }

InitCount == InitIncludeTree(CountTrees, {GoodDirs}) \/ InitOopTree(CountOopTrees)

SpecCount == InitCount /\ [][Next]_vars

\* line n of lines lies inside a block comment: an earlier line opened one with no
\* closing mark behind the opening mark, and no line since held a closing mark
RECURSIVE InComment(_, _)
InComment(lines, n) ==
    IF n <= 1 THEN FALSE
    ELSE IF InComment(lines, n - 1) THEN ~Contains(lines[n - 1], cm_close)
    ELSE lines[n - 1] = cnt_open

\* interior and closing lines occur inside block comments only
WellFormed(lines) ==
    \A n \in 1..Len(lines) : lines[n] \in {cnt_interior, cnt_close} => InComment(lines, n)

\* the number of lines that are non-blank and outside comments
CodeLineCount(lines) ==
    Cardinality({n \in 1..Len(lines) :
                    /\ ~InComment(lines, n)
                    /\ lines[n] \notin {cnt_blank, cnt_comment, cnt_one_line, cnt_open}})

\* the count that the run printed in the empty-idea warning of the observed file
PrintedCounts ==
    {findings[k].Arg : k \in {i \in 1..Len(findings) :
        findings[i].File = MainPath /\ findings[i].Rule = "red-flag-empty-idea"}}

\* C27: for every sequence of blank, code, line comment, one-line block comment,
\* opening, interior and closing lines, count_code_lines of either binding returns the
\* number of lines that are non-blank and outside comments: the lines from an opening
\* line through its closing line are excluded, and a block comment on one line hides
\* no later line
C27_CountCodeLines ==
    ((IncDone \/ OopDone) /\ WellFormed(MainFile.lines))
        => PrintedCounts = {NatStr(CodeLineCount(MainFile.lines))}

\* the claim holds for count_code_lines of Verify-Comsect1Code.py
IncCountCodeLines == binding = "include" => C27_CountCodeLines

\* count_code_lines of Verify-OOPCode.py agrees when no block comment closes on the
\* line that opens it
OopCountWithoutOneLine ==
    (\A n \in 1..Len(MainFile.lines) : MainFile.lines[n] # cnt_one_line) => C27_CountCodeLines

----------------------------------------------------------------------------
(* Verify-AIADGate.py: the gate driver *)

verify_spec == "Verify-Spec.py"
verify_code == "Verify-Comsect1Code.py"
verify_oop  == "Verify-OOPCode.py"

\* exit statuses of a child process: success, an uncaught failure, reported issues
ChildExitCodes == {0, 1, 2}

\* line 13
OOP_EXTENSIONS == {ext_cs, ext_vb}

w_codes    == <<"c","o","d","e","s">>
w_comsect1 == <<"c","o","m","s","e","c","t","1">>
w_croot    == <<"c","r","o","o","t">>
w_out      == <<"o","u","t">>
w_sub_cs   == <<"s","u","b">> \o ext_cs
w_rep_vb   == <<"r","e","p">> \o ext_vb
gate_json  == <<"g","a","t","e",".","j","s","o","n">>
main_c     == <<"m","a","i","n",".","c">>
ida_a_cs   == ida_ \o <<"a">> \o ext_cs

\* line 147: <repo>/codes/comsect1; paths are lists of segments below the repository
\* root, None is no path
default_code_root == <<w_codes, w_comsect1>>

\* line 130: <repo>/.aiad-gate-report.json
default_report_path ==
    << <<".","a","i","a","d","-","g","a","t","e","-","r","e","p","o","r","t",".","j","s","o","n">> >>

aiad_code_verify ==
    <<"a","i","a","d","-","c","o","d","e","-","v","e","r","i","f","y",".","j","s","o","n">>
aiad_oop_verify ==
    <<"a","i","a","d","-","o","o","p","-","v","e","r","i","f","y",".","j","s","o","n">>

\* the scripts found next to the driver: all three, or all but one
ScriptSets ==
    { {verify_spec, verify_code, verify_oop} \ missing :
         missing \in {{}, {verify_spec}, {verify_code}, {verify_oop}} }

\* the repository before the run: empty; a code root without and with an OOP source;
\* a code root next to an OOP root; the default code root; a file in the place of out
GateRoots ==
    { [files |-> <<>>, dirs |-> {}],
      [files |-> <<File(<<w_croot>>, main_c, <<>>)>>, dirs |-> {}],
      [files |-> <<File(<<w_croot>>, ida_a_cs, <<>>)>>, dirs |-> {}],
      [files |-> <<File(<<w_out>>, ida_ \o w_foo \o ext_vb, <<>>)>>, dirs |-> {<<w_croot>>}],
      [files |-> <<File(default_code_root, ida_a_cs, <<>>)>>, dirs |-> {}],
      [files |-> <<File(<<>>, w_out, <<>>)>>, dirs |-> {<<w_croot>>}] }

\* values of -ReportPath: not given; below out; below out through a folder named like
\* an OOP source; below the code root through such a folder; the code root itself
ReportPaths ==
    { None, <<w_out, gate_json>>, <<w_out, w_sub_cs, gate_json>>,
      <<w_croot, w_rep_vb, gate_json>>, <<w_croot>> }

\* the command line and the environment of one run of the driver
GateArgs ==
    { [ skip_spec |-> ss, skip_code |-> sc, skip_oop |-> so, code_root |-> cr,
        oop_root |-> orr, report_path |-> rp, modified_specs |-> ms, scripts |-> scr,
        files |-> fs.files, dirs |-> fs.dirs ] :
        ss \in BOOLEAN, sc \in BOOLEAN, so \in BOOLEAN,
        cr \in {None, <<w_croot>>}, orr \in {None, <<w_out>>, <<w_croot>>},
        rp \in ReportPaths,
        ms \in BOOLEAN,                 \* check_spec_modifications(repo_root) is non-empty
        scr \in ScriptSets, fs \in GateRoots }

\* lines 129-131
report_path(a) == IF a.report_path # None THEN a.report_path ELSE default_report_path

\* line 164: report_path.parent
report_dir(a) == SubSeq(report_path(a), 1, Len(report_path(a)) - 1)

\* lines 142-147: code_root after resolution
resolve_code_root(a, files, given) ==
    IF a.code_root # None THEN a.code_root
    ELSE IF is_dir(files, given, default_code_root) THEN default_code_root
    ELSE None

\* lines 149-152: oop_root after resolution
resolve_oop_root(a, files, given) ==
    IF a.oop_root # None THEN a.oop_root
    ELSE IF resolve_code_root(a, files, given) # None
            /\ is_dir(files, given, resolve_code_root(a, files, given))
    THEN resolve_code_root(a, files, given)
    ELSE None

\* has_oop_files(root): some rglob("*" + ext) yields a path, a file or a directory
has_oop_files(files, given, root) ==
    /\ root = <<>> \/ is_dir(files, given, root)
    /\ \E ext \in OOP_EXTENSIONS : rglob(files, given, root, <<"*">> \o ext) # {}

determine_stage_total(a, files, given, code_root, oop_root) ==
    LET total == (IF ~a.skip_spec THEN 1 ELSE 0)
                 + (IF ~a.skip_code /\ code_root # None /\ is_dir(files, given, code_root)
                    THEN 1 ELSE 0)
                 + (IF /\ ~a.skip_oop /\ oop_root # None /\ is_dir(files, given, oop_root)
                       /\ has_oop_files(files, given, oop_root)
                    THEN 1 ELSE 0)
    IN  IF total > 1 THEN total ELSE 1

\* a variant that lets a later stage set gatePassed again
add_stage_result_last_wins(rep, name, status, exit_code_, note, output_path) ==
    [ stages |-> Append(rep.stages,
                        [name |-> name, status |-> status, exitCode |-> exit_code_,
                         note |-> note, outputPath |-> output_path]),
      gatePassed |-> (status # "failed") ]

\* add_stage_result on the report rep = [stages, gatePassed]
add_stage_result(rep, name, status, exit_code_, note, output_path) ==
    [ stages |-> Append(rep.stages,
                        [name |-> name, status |-> status, exitCode |-> exit_code_,
                         note |-> note, outputPath |-> output_path]),
      gatePassed |-> IF status = "failed" THEN FALSE ELSE rep.gatePassed ]

\* the report the driver holds
GateReport == [stages |-> stages, gatePassed |-> gatePassed]

GateFrame ==
    UNCHANGED <<binding, file_name, role_info, source_files, idx, findings,
                project_config_names, header_feature_owners,
                project_resource_header_names, class_map, all_layer_files, args, out>>

\* records the stage and moves on
GateRecord(next_pc, name, status, exit_code_, note, output_path, printed) ==
    LET rep == add_stage_result(GateReport, name, status, exit_code_, note, output_path)
    IN  /\ stages' = rep.stages
        /\ gatePassed' = rep.gatePassed
        /\ console' = console \o printed
        /\ pc' = next_pc
        /\ UNCHANGED <<report, banner, exit_code>>
        /\ GateFrame

\* stage_num += 1, the stage line is printed and the child is started: the driver
\* waits in run_child
GateStartChild(wait_pc, title) ==
    /\ gate' = [gate EXCEPT !.stage_num = gate.stage_num + 1]
    /\ console' = Append(console, <<"[AIAD Gate] Stage", gate.stage_num + 1,
                                   gate.stage_total, title>>)
    /\ pc' = wait_pc
    /\ UNCHANGED <<stages, gatePassed, report, banner, exit_code, tree, dirs>>
    /\ GateFrame

\* what a child process leaves behind: its exit status and the file system. Verify-Spec.py
\* writes nothing. Verify-Comsect1Code.py writes its JSON report (write_json_no_bom: the
\* parent is made, then the text written) and returns 0 or 2; an exception, a failed
\* write included, ends it with 2 through its handler. Verify-OOPCode.py returns 0
\* without a report when it finds no ida_/prx_/poi_ file, else writes its report and
\* returns 0 or 2; an exception ends it with a traceback and 1. Any child may end with 1
\* before it writes.
ChildOutcomes(name, files, given, json_dir, json_name) ==
    LET same == [files |-> files, dirs |-> given]
        made == [files |-> files, dirs |-> mkdir(given, json_dir)]
        wrote == [files |-> write_text(files, json_dir, json_name, json_text),
                  dirs |-> mkdir(given, json_dir)]
        raised == IF name = "code" THEN 2 ELSE 1
        Out(e, fs) == [exit |-> e, files |-> fs.files, dirs |-> fs.dirs]
        attempt == IF mkdir_error(files, json_dir) # "" THEN {Out(raised, same)}
                   ELSE IF is_dir(files, made.dirs, json_dir \o <<json_name>>)
                   THEN {Out(raised, made)}
                   ELSE {Out(0, wrote), Out(2, wrote)}
    IN  IF name = "spec" THEN {Out(e, same) : e \in ChildExitCodes}
        ELSE IF name = "code" THEN attempt \cup {Out(1, same), Out(2, same)}
        ELSE attempt \cup {Out(0, same), Out(1, same)}

\* the child ends: run_child returns its exit status and the stage is recorded as
\* passed or failed
GateChild(next_pc, name, title, json_name) ==
    \E child \in ChildOutcomes(name, tree, dirs, report_dir(args), json_name) :
        /\ tree' = child.files
        /\ dirs' = child.dirs
        /\ gate' = gate
        /\ GateRecord(next_pc, name,
                      IF child.exit = 0 THEN "passed" ELSE "failed",
                      child.exit,
                      IF child.exit = 0 THEN <<title, "passed">>
                      ELSE IF name = "spec" THEN <<title, "reported issues">>
                      ELSE <<title, "reported errors">>,
                      IF name = "spec" THEN None ELSE report_dir(args) \o <<json_name>>,
                      <<>>)

\* a stage that starts no child is recorded at once
GateSkip(next_pc, name, note) ==
    /\ GateRecord(next_pc, name, "skipped", 0, note, None, <<>>)
    /\ UNCHANGED <<gate, tree, dirs>>

\* main, lines 111-164: the scripts are looked up, the roots resolved, the stage total
\* computed and the report created
GateStart ==
    /\ binding = "gate" /\ pc = "start"
    /\ IF {verify_spec, verify_code} \subseteq args.scripts
       THEN /\ pc' = "meta"
            /\ gate' = [code_root |-> resolve_code_root(args, tree, dirs),
                        oop_root |-> resolve_oop_root(args, tree, dirs),
                        stage_total |->
                            determine_stage_total(args, tree, dirs,
                                                  resolve_code_root(args, tree, dirs),
                                                  resolve_oop_root(args, tree, dirs)),
                        stage_num |-> 0]
            /\ UNCHANGED <<banner, exit_code>>
       ELSE /\ pc' = "done"
            /\ gate' = gate
            /\ banner' = <<"Missing script">>
            /\ exit_code' = 2
    /\ stages' = <<>>
    /\ gatePassed' = TRUE
    /\ UNCHANGED <<console, report, tree, dirs>>
    /\ GateFrame

\* Stage 0, lines 166-191
GateMeta ==
    /\ binding = "gate" /\ pc = "meta"
    /\ IF args.modified_specs
       THEN GateRecord("spec", "meta-advisory", "advisory", 0,
                       <<"Spec modifications detected">>, None,
                       << <<"[AIAD Gate] Stage 0 (advisory)">> >>)
       ELSE GateRecord("spec", "meta-advisory", "clean", 0,
                       <<"No spec modifications detected">>, None, <<>>)
    /\ UNCHANGED <<gate, tree, dirs>>

\* Stage 1, lines 193-197 and 217-225: the flag, the stage line and the start of the child
GateSpec ==
    /\ binding = "gate" /\ pc = "spec"
    /\ IF ~args.skip_spec
       THEN GateStartChild("spec child", "Verify-Spec")
       ELSE GateSkip("code", "spec", <<"Skipped by flag">>)

\* Stage 1, lines 197-216: Verify-Spec.py ends
GateSpecChild ==
    /\ binding = "gate" /\ pc = "spec child"
    /\ GateChild("code", "spec", "Verify-Spec", None)

\* Stage 2, lines 227-249 and 268-277
GateCode ==
    /\ binding = "gate" /\ pc = "code"
    /\ IF ~args.skip_code
       THEN IF gate.code_root = None \/ ~is_dir(tree, dirs, gate.code_root)
            THEN GateSkip("oop", "code",
                          <<"Code root not provided/found; skipped code architecture stage">>)
            ELSE GateStartChild("code child", "Verify-Comsect1Code")
       ELSE GateSkip("oop", "code", <<"Skipped by flag">>)

\* Stage 2, lines 249-267: Verify-Comsect1Code.py ends
GateCodeChild ==
    /\ binding = "gate" /\ pc = "code child"
    /\ GateChild("oop", "code", "Verify-Comsect1Code", aiad_code_verify)

\* Stage 3, lines 279-318 and 338-347: the tests are made on the file system as the
\* children left it
GateOop ==
    /\ binding = "gate" /\ pc = "oop"
    /\ IF ~args.skip_oop
       THEN IF verify_oop \notin args.scripts
            THEN GateSkip("write", "oop", <<"Verify-OOPCode.py not found; skipped OOP stage">>)
            ELSE IF gate.oop_root = None \/ ~is_dir(tree, dirs, gate.oop_root)
            THEN GateSkip("write", "oop", <<"OOP root not provided/found; skipped OOP stage">>)
            ELSE IF ~has_oop_files(tree, dirs, gate.oop_root)
            THEN GateSkip("write", "oop",
                          <<"No OOP source files (.cs, .vb) found under", gate.oop_root>>)
            ELSE GateStartChild("oop child", "Verify-OOPCode")
       ELSE GateSkip("write", "oop", <<"Skipped by flag">>)

\* Stage 3, lines 319-337: Verify-OOPCode.py ends
GateOopChild ==
    /\ binding = "gate" /\ pc = "oop child"
    /\ GateChild("write", "oop", "Verify-OOPCode", aiad_oop_verify)

\* lines 349-355 and the handler under __main__: the report is written, the status
\* printed and returned; an OSError of mkdir or write_text ends the run with status 2
GateWrite ==
    /\ binding = "gate" /\ pc = "write"
    /\ LET dir == report_dir(args)
           name == report_path(args)[Len(report_path(args))]
       IN  IF mkdir_error(tree, dir) # ""
           THEN /\ banner' = <<mkdir_error(tree, dir), dir>>
                /\ exit_code' = 2
                /\ UNCHANGED <<report, tree, dirs>>
           ELSE IF is_dir(tree, mkdir(dirs, dir), report_path(args))
           THEN /\ banner' = <<"[Errno 21] Is a directory", report_path(args)>>
                /\ exit_code' = 2
                /\ dirs' = mkdir(dirs, dir)
                /\ UNCHANGED <<report, tree>>
           ELSE /\ dirs' = mkdir(dirs, dir)
                /\ tree' = write_text(tree, dir, name, json_text)
                /\ report' = GateReport
                /\ banner' = <<"[AIAD Gate] Status", IF gatePassed THEN "PASSED" ELSE "FAILED">>
                /\ exit_code' = IF gatePassed THEN 0 ELSE 2
    /\ pc' = "done"
    /\ UNCHANGED <<stages, gatePassed, console, gate>>
    /\ GateFrame

NextGate ==
    \/ GateStart \/ GateMeta \/ GateSpec \/ GateSpecChild \/ GateCode \/ GateCodeChild
    \/ GateOop \/ GateOopChild \/ GateWrite

InitGate ==
    /\ binding = "gate"
    /\ pc = "start"
    /\ args \in GateArgs
    /\ out = EmptyOut
    /\ gate = <<>>
    /\ stages = <<>>
    /\ gatePassed = TRUE
    /\ file_name = <<>>
    /\ role_info = NoRoleInfo
    /\ dirs = args.dirs
    /\ tree = args.files
    /\ source_files = <<>>
    /\ idx = 0
    /\ findings = <<>>
    /\ project_config_names = {}
    /\ header_feature_owners = <<>>
    /\ project_resource_header_names = {}
    /\ class_map = EmptyClassMap
    /\ all_layer_files = <<>>
    /\ console = <<>>
    /\ banner = <<>>
    /\ report = <<>>
    /\ exit_code = -1

SpecGate == InitGate /\ [][NextGate]_vars

StageOrder == <<"meta-advisory", "spec", "code", "oop">>

\* the driver finished a run in which it wrote the report
GateDone == binding = "gate" /\ pc = "done" /\ banner[1] = "[AIAD Gate] Status"

\* the names of the stage entries, in the order of the report
StageNames(q) == [k \in 1..Len(q) |-> q[k].name]

\* some entry of q has the status failed
SomeFailed(q) == \E k \in 1..Len(q) : q[k].status = "failed"

\* the child of the stage that main is about to decide on is due: its flag and the file
\* system as it is now allow it, whatever the stages before it returned
ChildDue ==
    CASE pc = "spec" -> ~args.skip_spec
      [] pc = "code" -> /\ ~args.skip_code
                        /\ gate.code_root # None /\ is_dir(tree, dirs, gate.code_root)
      [] pc = "oop"  -> /\ ~args.skip_oop /\ verify_oop \in args.scripts
                        /\ gate.oop_root # None /\ is_dir(tree, dirs, gate.oop_root)
                        /\ has_oop_files(tree, dirs, gate.oop_root)
      [] OTHER -> FALSE

\* the entries recorded so far are the first stages of the fixed order, with gatePassed
\* false exactly when one of them failed, and failed exactly for a non-zero child exit
StagesInOrder ==
    binding = "gate" =>
       /\ Len(stages) <= Len(StageOrder)
       /\ StageNames(stages) = SubSeq(StageOrder, 1, Len(stages))
       /\ gatePassed = ~SomeFailed(stages)
       /\ \A k \in 1..Len(stages) :
             /\ (stages[k].status = "failed") = (stages[k].exitCode # 0)
             /\ stages[k].status \in {"passed", "failed", "skipped", "advisory", "clean"}

\* the written report has one entry per stage, and the exit status follows gatePassed
ReportComplete ==
    GateDone =>
       /\ StageNames(report.stages) = StageOrder
       /\ report.stages = stages /\ report.gatePassed = gatePassed
       /\ exit_code = IF gatePassed THEN 0 ELSE 2
       /\ (banner[2] = "PASSED") = gatePassed

\* a run that main ends with an exception exits 2 and writes no report
GateRaised ==
    (binding = "gate" /\ pc = "done" /\ ~GateDone) => exit_code = 2 /\ report = <<>>

\* one step of the driver records at most one stage; gatePassed turns false exactly in
\* a step that records a failed stage and never turns true again; a child is started
\* exactly when it is due, and its stage is recorded as passed or failed when it ends
GateStep ==
    binding = "gate" /\ pc # "start" =>
       /\ stages' = stages \/ (Len(stages') = Len(stages) + 1 /\ SubSeq(stages', 1, Len(stages)) = stages)
       /\ (~gatePassed => ~gatePassed')
       /\ (gatePassed /\ ~gatePassed') =>
             (Len(stages') = Len(stages) + 1 /\ stages'[Len(stages')].status = "failed")
       /\ (Len(stages') = Len(stages) + 1 /\ stages'[Len(stages')].status = "failed")
             => ~gatePassed'
       /\ (Len(stages') = Len(stages) + 1 /\ stages'[Len(stages')].status # "failed")
             => gatePassed' = gatePassed
       /\ pc \in {"spec", "code", "oop"} =>
             /\ ChildDue => pc' \in {"spec child", "code child", "oop child"} /\ stages' = stages
             /\ ~ChildDue => /\ Len(stages') = Len(stages) + 1
                             /\ stages'[Len(stages')].status = "skipped"
       /\ pc \in {"spec child", "code child", "oop child"} =>
             /\ Len(stages') = Len(stages) + 1
             /\ stages'[Len(stages')].status \in {"passed", "failed"}

\* C28, as stated: a finished run of the driver that recorded its four stages exits 0
\* if and only if gatePassed is true, else 2, and has written a report with the four
\* entries
C28_ExitFollowsGate ==
    (binding = "gate" /\ pc = "done" /\ Len(stages) = 4) =>
       /\ exit_code = IF gatePassed THEN 0 ELSE 2
       /\ report # <<>> /\ StageNames(report.stages) = StageOrder

\* C28, amended: the gate driver records the stages meta-advisory, spec, code, oop in
\* this order and attempts each whatever the earlier ones returned; gatePassed starts
\* true, turns false exactly when a stage is recorded as failed (child exit status
\* other than 0) and never turns true again; skipped, advisory and clean stages do not
\* fail the gate; a run that writes its report writes exactly one entry per stage in
\* that order and exits 0 if gatePassed is true and 2 otherwise; a run that main ends
\* with an exception (a missing verifier script, an OSError while the report is
\* written) exits 2 without a report, whatever gatePassed is
C28_GateFolding ==
    /\ binding = "gate" /\ pc = "start" => gatePassed
    /\ [](StagesInOrder /\ ReportComplete /\ GateRaised)
    /\ [][GateStep]_vars

\* a finished run in which the spec stage failed, the code stage still ran and passed,
\* and the oop stage was skipped: the gate stays failed and the driver exits 2
C28_Witness ==
    /\ GateDone
    /\ Len(stages) = 4
    /\ stages[1].status = "advisory"
    /\ stages[2].status = "failed"
    /\ stages[3].status = "passed"
    /\ stages[4].status = "skipped"
    /\ ~gatePassed /\ exit_code = 2

\* a finished run in which no stage failed
GatePassedReached == GateDone /\ gatePassed /\ exit_code = 0 /\ stages[4].status = "passed"

\* a run that stops before the report exists because a verifier script is missing
GateAbortReached == binding = "gate" /\ pc = "done" /\ stages = <<>> /\ exit_code = 2

\* a run in which no stage failed and the report could not be written
GateWriteFailedReached ==
    /\ binding = "gate" /\ pc = "done" /\ Len(stages) = 4 /\ gatePassed /\ exit_code = 2
    /\ banner[1] = "[Errno 21] Is a directory"

\* the driver waits for Verify-Comsect1Code.py: the stage line is printed and the
\* stage not recorded
GateWaitingReached ==
    /\ binding = "gate" /\ pc = "code child" /\ Len(stages) = 2
    /\ console[Len(console)][4] = "Verify-Comsect1Code"

\* the code child made the OOP root while it wrote its report: the stage is skipped for
\* want of OOP sources, not for want of the root
GateMadeRootReached ==
    /\ GateDone /\ ~is_dir(args.files, args.dirs, gate.oop_root)
    /\ stages[3].status \in {"passed", "failed"}
    /\ stages[4].note = <<"No OOP source files (.cs, .vb) found under", gate.oop_root>>

\* the code child made the OOP root with a folder named like an OOP source while it
\* wrote its report: the OOP child runs as the third of two stages
GateLateOopReached ==
    /\ GateDone /\ gate.stage_total = 2 /\ gate.stage_num = 3
    /\ ~is_dir(args.files, args.dirs, gate.oop_root)
    /\ stages[4].status = "passed"
    /\ console[Len(console)] = <<"[AIAD Gate] Stage", 3, 2, "Verify-OOPCode">>

----------------------------------------------------------------------------
(* New-Comsect1Scaffold.py: the scaffold generator *)

\* main, lines 71-85
relative_dirs ==
    << <<w_project>>, project_config_dir, project_datastreams_dir, project_features_dir,
       <<w_infra>>, infra_bootstrap_dir, infra_service_dir, <<w_infra, w_platform>>,
       infra_hal_dir, infra_bsp_dir, deps_root_dir, deps_extern_dir, deps_middleware_dir >>

\* the text main writes to infra/bootstrap/cfg_core.h, line by line (lines 91-103)
cfg_core_content ==
    << <<"#","i","f","n","d","e","f"," ","C","F","G","_","C","O","R","E","_","H">>,
       <<"#","d","e","f","i","n","e"," ","C","F","G","_","C","O","R","E","_","H">>,
       <<>>,
       <<"/","*"," ","c","o","m","s","e","c","t","1"," ","C","o","r","e"," ","C","o","n","t","r","a","c","t"," ","h","e","a","d","e","r"," ","(","s","h","a","r","e","d"," ","t","y","p","e","s","/","i","n","t","e","r","f","a","c","e","s",")","."," ","*","/">>,
       <<>>,
       <<"#","e","n","d","i","f"," ","/","*"," ","C","F","G","_","C","O","R","E","_","H"," ","*","/">> >>

\* the text main writes to project/config/cfg_project.h, line by line (lines 107-120)
cfg_project_content ==
    << <<"#","i","f","n","d","e","f"," ","C","F","G","_","P","R","O","J","E","C","T","_","H">>,
       <<"#","d","e","f","i","n","e"," ","C","F","G","_","P","R","O","J","E","C","T","_","H">>,
       <<>>,
       <<"/","*"," ","P","r","o","j","e","c","t"," ","t","a","r","g","e","t"," ","i","n","t","e","r","f","a","c","e"," ","h","e","a","d","e","r"," ","(","c","u","s","t","o","m","i","z","e"," ","p","e","r"," ","p","r","o","j","e","c","t",")",".">>,
       <<" ","*"," ","P","r","a","x","i","s"," ","a","n","d"," ","P","o","i","e","s","i","s"," ","m","a","y"," ","i","n","c","l","u","d","e"," ","t","h","i","s"," ","h","e","a","d","e","r",";"," ","I","d","e","a"," ","m","u","s","t"," ","n","o","t","."," ","*","/">>,
       <<>>,
       <<"#","e","n","d","i","f"," ","/","*"," ","C","F","G","_","P","R","O","J","E","C","T","_","H"," ","*","/">> >>

INVALID_WINDOWS_CHARS == {"<", ">", ":", "\"", "/", "\\", "|", "?", "*"}

\* assert_valid_feature_name returns without raising; "\t" stands for the characters
\* below the space
IsValidFeatureName(name) ==
    LET trimmed == Strip(name)
    IN  /\ trimmed # <<>>
        /\ \A k \in 1..Len(trimmed) : trimmed[k] \notin {"/", "\\"}
        /\ \E k \in 1..Len(trimmed) : trimmed[k] # "."
        /\ \A k \in 1..Len(trimmed) : trimmed[k] \notin INVALID_WINDOWS_CHARS
        /\ \A k \in 1..Len(trimmed) : trimmed[k] # "\t"
        /\ trimmed[1] \notin {".", "/", "\\"}

\* sorted(names): the elements of the set in increasing str order
RECURSIVE SortedNames(_)
SortedNames(names) ==
    IF names = {} THEN <<>>
    ELSE LET least == CHOOSE n \in names : \A m \in names \ {n} : StrLess(n, m)
         IN  <<least>> \o SortedNames(names \ {least})

normalize_feature_args(features) ==
    LET pieces == Join([k \in 1..Len(features) |-> SplitComma(features[k])])
    IN  SortedNames({Strip(pieces[k]) : k \in 1..Len(pieces)} \ {<<>>})

\* a variant that writes whether or not the path exists
write_always(files, given, dir, name, content) ==
    IF mkdir_error(files, dir) # ""
    THEN [files |-> files, dirs |-> given, raised |-> <<mkdir_error(files, dir), dir>>]
    ELSE [files |-> write_text(files, dir, name, content), dirs |-> mkdir(given, dir),
          raised |-> <<>>]

\* write_if_missing: the files and directories after the call, and the exception that
\* path.parent.mkdir raised, <<>> when the call returned
write_if_missing(files, given, dir, name, content) ==
    IF path_exists(files, given, dir, name)
    THEN [files |-> files, dirs |-> given, raised |-> <<>>]
    ELSE IF mkdir_error(files, dir) # ""
    THEN [files |-> files, dirs |-> given, raised |-> <<mkdir_error(files, dir), dir>>]
    ELSE [files |-> write_text(files, dir, name, content), dirs |-> mkdir(given, dir),
          raised |-> <<>>]

\* lines 87-88: the loop over relative_dirs, up to the first mkdir that raises
RECURSIVE MakeDirs(_, _, _)
MakeDirs(files, given, ds) ==
    IF ds = <<>> THEN [dirs |-> given, raised |-> <<>>]
    ELSE IF mkdir_error(files, Head(ds)) # ""
    THEN [dirs |-> given, raised |-> <<mkdir_error(files, Head(ds)), Head(ds)>>]
    ELSE MakeDirs(files, mkdir(given, Head(ds)), Tail(ds))

\* lines 123-126: the loop over the feature names, up to the first name that is
\* rejected or whose mkdir raises
RECURSIVE MakeFeatures(_, _, _)
MakeFeatures(files, given, names) ==
    IF names = <<>> THEN [dirs |-> given, raised |-> <<>>]
    ELSE IF ~IsValidFeatureName(Head(names))
    THEN [dirs |-> given, raised |-> <<"Invalid feature name">>]
    ELSE LET d == project_features_dir \o <<Head(names)>>
         IN  IF mkdir_error(files, d) # ""
             THEN [dirs |-> given, raised |-> <<mkdir_error(files, d), d>>]
             ELSE MakeFeatures(files, mkdir(given, d), Tail(names))

\* main and the handler under __main__: one run of the generator on the destination
ScaffoldMain ==
    /\ binding = "scaffold" /\ pc \in {"start", "done"}
    /\ LET feature_names == normalize_feature_args(args.features)
           made == MakeDirs(tree, dirs, relative_dirs)
           core == write_if_missing(tree, made.dirs, infra_bootstrap_dir, cfg_core_h,
                                    cfg_core_content)
           project == write_if_missing(core.files, core.dirs, project_config_dir,
                                       cfg_project_h, cfg_project_content)
           features == MakeFeatures(project.files, project.dirs, feature_names)
       IN  IF args.destination.root_is_file
           THEN /\ banner' = <<"[Errno 17] File exists", <<>>>>
                /\ exit_code' = 2
                /\ UNCHANGED <<tree, dirs>>
           ELSE IF made.raised # <<>>
           THEN /\ banner' = made.raised
                /\ exit_code' = 2
                /\ dirs' = made.dirs
                /\ tree' = tree
           ELSE IF core.raised # <<>>
           THEN /\ banner' = core.raised
                /\ exit_code' = 2
                /\ dirs' = core.dirs
                /\ tree' = core.files
           ELSE IF project.raised # <<>>
           THEN /\ banner' = project.raised
                /\ exit_code' = 2
                /\ dirs' = project.dirs
                /\ tree' = project.files
           ELSE /\ tree' = project.files
                /\ dirs' = features.dirs
                /\ IF features.raised = <<>>
                   THEN /\ banner' = <<"comsect1 scaffold ready", feature_names>>
                        /\ exit_code' = 0
                   ELSE /\ banner' = features.raised
                        /\ exit_code' = 2
    /\ pc' = IF pc = "start" THEN "done" ELSE "done again"
    /\ UNCHANGED <<binding, file_name, role_info, source_files, idx, findings,
                   project_config_names, header_feature_owners,
                   project_resource_header_names, class_map, all_layer_files,
                   console, report, args, out, gate, stages, gatePassed>>

\* dir is path or a directory above it
IsAbove(dir, path) == Len(dir) <= Len(path) /\ SubSeq(path, 1, Len(dir)) = dir

\* t lists files as a walk of their directories does: the files of a directory before
\* those of the directories in it, and the files below one directory together
IsDirectoryWalk(t) ==
    /\ \A i, j \in 1..Len(t) :
          i < j => ~(t[j].dir # t[i].dir /\ IsAbove(t[j].dir, t[i].dir))
    /\ \A i, j, k \in 1..Len(t) :
          i < j /\ j < k =>
             \A n \in 1..Len(t[i].dir) :
                IsAbove(SubSeq(t[i].dir, 1, n), t[k].dir) => IsAbove(SubSeq(t[i].dir, 1, n), t[j].dir)

\* the orders in which root.rglob("*") can list the files q, whatever the order of
\* the entries of each directory is
DirectoryWalks(q) == {t \in WalkOrders(q) : IsDirectoryWalk(t)}

\* the include verifier is started on the destination and walks it
VerifyDestination ==
    /\ binding = "scaffold" /\ pc \in {"done", "done again"}
    /\ binding' = "include"
    /\ pc' = "start"
    /\ banner' = <<>>
    /\ exit_code' = -1
    /\ tree' \in DirectoryWalks(tree)
    /\ UNCHANGED <<file_name, role_info, dirs, source_files, idx, findings,
                   project_config_names, header_feature_owners,
                   project_resource_header_names, class_map, all_layer_files,
                   console, report, args, out, gate, stages, gatePassed>>

NextScaffold == ScaffoldMain \/ VerifyDestination \/ NextInclude

sc_foo_bar   == w_foo \o <<",">> \o w_bar
sc_spaced    == <<" ">> \o w_foo \o <<" ",","," ">>
sc_two_words == <<"a"," ","b">>
sc_dots      == <<".",".">>
sc_hidden    == <<".","g","i","t">>
sc_path      == <<"a","/","b">>
sc_angle     == <<"a","<","b">>
sc_tab       == <<"a","\t","b">>

\* values of -Features
FeatureArgs ==
    { w_foo, w_bar, w_features, cfg_core_h, sc_foo_bar, sc_spaced, sc_two_words,
      sc_dots, sc_hidden, sc_path, sc_angle, sc_tab }

FeatureArgLists ==
    {<<>>} \cup {<<a>> : a \in FeatureArgs} \cup {<<a, b>> : a \in FeatureArgs, b \in FeatureArgs}

Destination(files, given) == [root_is_file |-> FALSE, files |-> files, dirs |-> given]

\* the destination before the first run: empty; holding headers written earlier and
\* edited since; holding a directory where a header goes; holding a file where a
\* directory goes; or a file itself
Destinations ==
    { Destination(<<>>, {}),
      Destination(<< File(project_config_dir, cfg_project_h, <<line_code>>) >>, {}),
      Destination(<< File(infra_bootstrap_dir, cfg_core_h, <<line_code>>),
                     File(project_config_dir, cfg_project_h, <<>>) >>, {}),
      Destination(<<>>, {infra_bootstrap_dir \o <<cfg_core_h>>}),
      Destination(<<>>, {project_config_dir \o <<cfg_project_h>>}),
      Destination(<< File(project_features_dir, w_foo, <<>>) >>, {}),
      Destination(<< File(<<>>, w_infra, <<>>) >>, {}),
      [root_is_file |-> TRUE, files |-> <<>>, dirs |-> {}] }

InitScaffold ==
    /\ binding = "scaffold"
    /\ pc = "start"
    /\ \E f \in FeatureArgLists, d \in Destinations :
          args = [features |-> f, destination |-> d, root_is_dir |-> ~d.root_is_file,
                  json_out |-> RootGiven.json_out]
    /\ out = EmptyOut
    /\ gate = <<>>
    /\ tree = args.destination.files
    /\ dirs = args.destination.dirs
    /\ stages = <<>>
    /\ gatePassed = TRUE
    /\ file_name = <<>>
    /\ role_info = NoRoleInfo
    /\ source_files = <<>>
    /\ idx = 0
    /\ findings = <<>>
    /\ project_config_names = {}
    /\ header_feature_owners = <<>>
    /\ project_resource_header_names = {}
    /\ class_map = EmptyClassMap
    /\ all_layer_files = <<>>
    /\ console = <<>>
    /\ banner = <<>>
    /\ report = <<>>
    /\ exit_code = -1

SpecScaffold == InitScaffold /\ [][NextScaffold]_vars

\* the generator ran on an empty destination and accepted every feature name
ScaffoldedFromEmpty ==
    /\ args.destination = Destination(<<>>, {})
    /\ \A k \in 1..Len(normalize_feature_args(args.features)) :
          IsValidFeatureName(normalize_feature_args(args.features)[k])

\* layout.required, layout.legacy, naming and path.* rules
LayoutRuleIds ==
    { "layout.legacy", "layout.required", "naming.prefix", "path.bootstrap",
      "path.datastream", "path.deps_middleware", "path.feature_resource",
      "path.infra_bsp", "path.infra_hal", "path.infra_service", "path.project_config",
      "path.project_feature" }

\* the verifier finished on a scaffold of an empty destination without a layout,
\* naming or path error and returned 0
ScaffoldVerifies ==
    (IncDone /\ ScaffoldedFromEmpty) =>
       /\ \A k \in 1..Len(findings) :
             ~(findings[k].Severity = "error" /\ findings[k].Rule \in LayoutRuleIds)
       /\ report = findings
       /\ exit_code = 0

\* a run of the generator leaves every file of the destination as it is, and a run
\* after the first changes neither the files nor the directories
ScaffoldStep ==
    binding = "scaffold" /\ binding' = "scaffold" =>
       /\ Len(tree') >= Len(tree) /\ SubSeq(tree', 1, Len(tree)) = tree
       /\ pc = "done" => (tree' = tree /\ dirs' = dirs)

\* C29: the include verifier run on the result of the scaffold generator on an empty
\* destination, for any list of valid feature names, reports no layout.required,
\* layout.legacy, naming or path.* error and exits 0; a second run of the generator
\* changes nothing, and no run overwrites an existing cfg_core.h or cfg_project.h
C29_ScaffoldVerifies ==
    /\ []ScaffoldVerifies
    /\ [][ScaffoldStep]_vars

\* the verifier finished with exit status 0 on a destination that the generator
\* filled in two runs with the feature folders bar and foo
C29_Witness ==
    /\ IncDone /\ ScaffoldedFromEmpty /\ exit_code = 0
    /\ args.features = <<sc_foo_bar>>
    /\ {project_features_dir \o <<w_foo>>, project_features_dir \o <<w_bar>>} \subseteq dirs
    /\ Len(source_files) = 2
    /\ source_files[1].name = cfg_project_h
    /\ source_files[2].lines = cfg_core_content

\* the second run met a header edited after an earlier run and kept it
ScaffoldKeptReached ==
    /\ binding = "scaffold" /\ pc = "done again"
    /\ tree # <<>> /\ tree[1].name = cfg_core_h /\ tree[1].lines = <<line_code>>

\* a run that met a directory where cfg_core.h goes wrote cfg_project.h only
ScaffoldDirKeptReached ==
    /\ binding = "scaffold" /\ pc = "done" /\ exit_code = 0
    /\ infra_bootstrap_dir \o <<cfg_core_h>> \in dirs
    /\ Len(tree) = 1 /\ tree[1].name = cfg_project_h

\* a run that met a file where the folder of the feature goes ended with status 2
\* after it wrote the headers
ScaffoldFeatureFileReached ==
    /\ binding = "scaffold" /\ pc = "done" /\ exit_code = 2
    /\ banner = <<"[Errno 17] File exists", project_features_dir \o <<w_foo>>>>
    /\ Len(tree) = 3 /\ deps_middleware_dir \in dirs

\* a run that met a file named infra ended with status 2 after it made project/
ScaffoldInfraFileReached ==
    /\ binding = "scaffold" /\ pc = "done" /\ exit_code = 2
    /\ banner = <<"[Errno 17] File exists", <<w_infra>>>>
    /\ Len(tree) = 1 /\ dirs = SeqRange(SubSeq(relative_dirs, 1, 4))

\* a run that rejected a feature name after it made the folders
ScaffoldRejectReached ==
    binding = "scaffold" /\ pc = "done" /\ exit_code = 2 /\ deps_root_dir \in dirs

\* the generator and the verifier both stopped with status 2 on a destination that
\* is a file
ScaffoldRootFileReached ==
    /\ IncDone /\ args.destination.root_is_file
    /\ banner = IncRootBanner /\ exit_code = 2 /\ report = <<>> /\ tree = <<>>

\* the verifier finds nothing at all on the scaffold of an empty destination
ScaffoldNoFinding == (IncDone /\ ScaffoldedFromEmpty) => findings = <<>>

----------------------------------------------------------------------------
(* Files without a role *)

RolelessNames ==
    { w_inf \o U \o w_foo \o ext_c, w_inf \o U \o w_poi \o ext_h, w_zzz \o ext_c, w_poi \o ext_c }

RolelessDirs ==
    { project_features_dir \o <<w_foo>>, project_config_dir, infra_bootstrap_dir,
      infra_service_dir, deps_extern_dir, <<w_misc>> }

RolelessLines ==
    { IncludeLine("\"", w_ida \o U \o w_bar \o ext_h, "\""),
      IncludeLine("\"", w_hal \o U \o w_x \o ext_h, "\""),
      IncludeLine("\"", w_deps \o <<SEP>> \o w_zzz \o ext_h, "\""),
      fat_if_mode }

RolelessBodies ==
    {<<>>} \cup {<<a>> : a \in RolelessLines} \cup {<<a, b>> : a \in RolelessLines, b \in RolelessLines}

\* the file without a role, readable or not, next to the required headers
RolelessTrees ==
    { GoodEnv \o <<f>> :
         f \in UNION { {File(d, n, b), Unreadable(File(d, n, b))} :
                          d \in RolelessDirs, n \in RolelessNames, b \in RolelessBodies } }

InitRoleless == InitIncludeTree(RolelessTrees, {GoodDirs})

SpecRoleless == InitRoleless /\ [][NextInclude]_vars

\* the entries of q for the observed file
MainEntries(q) == SelectSeq(q, LAMBDA x : x.File = MainPath)

\* the number of findings that the role of the observed file calls for, whatever the
\* file holds: one for the prefix inf_, one for an unknown role in a managed folder
NamingFindingsDue ==
    IF MainRole = "invalid_prefix" \/ UnderManagedRoot(MainFile.dir) THEN 1 ELSE 0

\* C30: in the include binding a file classified invalid_prefix or unknown has at most
\* one finding, a naming.prefix error, in the finding list, the report and the console:
\* no path, read, include or red-flag finding, whatever its folder and its lines
C30_RolelessFrame ==
    (IncDone /\ MainRole \in {"invalid_prefix", "unknown"}) =>
       /\ Len(MainEntries(findings)) = NamingFindingsDue
       /\ \A k \in 1..Len(MainEntries(findings)) :
             /\ MainEntries(findings)[k].Rule = "naming.prefix"
             /\ MainEntries(findings)[k].Severity = "error"
       /\ MainEntries(report) = MainEntries(findings)
       /\ MainEntries(console) = MainEntries(findings)
       /\ findings = MainEntries(findings)

\* an inf_ file outside the role folders, with an include of another
\* feature's idea header and a conditional on a domain word, has its one naming error
C30_Witness ==
    /\ IncDone /\ MainRole = "invalid_prefix"
    /\ MainFile.dir = infra_service_dir
    /\ MainFile.lines = <<IncludeLine("\"", w_ida \o U \o w_bar \o ext_h, "\""), fat_if_mode>>
    /\ Len(findings) = 1 /\ findings[1].Rule = "naming.prefix"

\* a file of unknown role with a deps/ include outside the managed folders: no finding
RolelessSilentReached ==
    /\ IncDone /\ MainRole = "unknown" /\ ~MainFile.readable
    /\ MainFile.dir = deps_extern_dir /\ Len(MainFile.lines) = 2
    /\ findings = <<>> /\ exit_code = 0

----------------------------------------------------------------------------
(* Exit status of the two verifiers: findings, report destinations and -Extensions *)

w_sub == <<"s","u","b">>

\* -JsonOut and -ReportPath: absent, in the working directory, one and two folders below
ExitReportPaths == { None, <<w_report_json>>, <<w_out, w_report_json>>, <<w_out, w_sub, w_report_json>> }

\* the working directory: empty, holding a file out, holding a directory report.json
WorkingDirs ==
    { EmptyOut,
      [files |-> << File(<<>>, w_out, <<>>) >>, dirs |-> {}],
      [files |-> <<>>, dirs |-> {<<w_report_json>>}] }

ExitIncludeArgs == {[RootGiven EXCEPT !.json_out = p] : p \in ExitReportPaths}

\* command lines of the identifier binding: every report path with the default
\* extensions, and the invalid pattern .**
ExitOopArgs ==
    {[DefaultOopArgs EXCEPT !.ReportPath = p] : p \in ExitReportPaths}
      \cup {[DefaultOopArgs EXCEPT !.Extensions = <<".","*","*">>]}

ExitOopTrees ==
    { env \o <<File(<<>>, n, b)>> :
         env \in { << File(<<w_lib>>, ida_ \o w_foo \o ext_vb, <<>>) >>,
                   << File(<<w_lib>>, prx_ \o w_foo \o ext_vb, <<>>),
                      File(<<w_lib>>, ida_ \o w_bar \o ext_vb, <<>>),
                      File(<<>>, w_zzz \o ext_c, <<>>) >> },
         n \in { ida_ \o w_bar \o ext_cs, poi_ \o w_foo \o ext_vb, w_zzz \o ext_vb },
         b \in { <<>> } \cup {<<a>> : a \in OopLines} }
      \cup { << File(<<>>, w_zzz \o ext_vb, <<>>) >> }

InitExit ==
    \/ InitIncludeIn({GoodEnv}, {project_features_dir \o <<w_foo>>},
                     { w_ida \o U \o w_foo \o ext_c, w_poi \o U \o w_foo \o ext_c,
                       w_svc \o U \o w_x \o ext_c },
                     { <<>> } \cup {<<l>> : l \in IncludeLines}, {GoodDirs},
                     ExitIncludeArgs, WorkingDirs)
    \/ InitOopIn(ExitOopTrees, {{}}, ExitOopArgs, WorkingDirs)

SpecExit == InitExit /\ [][Next]_vars

\* the report of the run cannot be written: a file stands where a folder of its path
\* goes, or a directory where the report goes
ReportBlocked(path) ==
    /\ path # None
    /\ \/ \E k \in 1..(Len(path) - 1) : is_file(out.files, SubSeq(path, 1, k - 1), path[k])
       \/ is_dir(out.files, out.dirs, path)

\* the identifier binding collected a file of the three layers
LayerFileCollected == Len(class_map.idea) + Len(class_map.praxis) + Len(class_map.poiesis) > 0

\* an exception ended the run: the report write of either binding, or the file scan
\* of the identifier binding under an invalid -Extensions pattern
RunRaised ==
    \/ binding = "include" /\ ReportBlocked(args.json_out)
    \/ /\ binding = "identifier"
       /\ \/ collect_raises(ParseExtensions(args.Extensions))
          \/ LayerFileCollected /\ ReportBlocked(args.ReportPath)

ExitWriteFailedReached ==
    /\ IncDone /\ ~HasError(findings) /\ exit_code = 2
    /\ banner = <<"[Errno 17] File exists", <<w_out>>>>

\* a run of the identifier binding with an error finding exits with 1: a directory
\* stands where its report goes
ExitOopWriteFailedReached ==
    /\ OopDone /\ HasError(findings) /\ exit_code = 1
    /\ banner = <<"IsADirectoryError", "[Errno 21] Is a directory", <<w_report_json>>>>

\* a run of the identifier binding on an existing root exits with 1 before it finds
\* anything: the pattern of -Extensions is no valid glob pattern
ExitPatternReached ==
    /\ OopDone /\ args.root_is_dir /\ exit_code = 1 /\ banner = OopPatternBanner

\* a run of the identifier binding without a layer file returns before the report:
\* it exits with 0 though the report could not be written
ExitNoLayerFileReached ==
    /\ OopDone /\ ~LayerFileCollected /\ ReportBlocked(args.ReportPath)
    /\ exit_code = 0 /\ banner = OopNoFilesBanner



====
